---- MODULE Spec2Model ----
(***************************************************************************)
(* A model of the beacon reactive graph: settable signals, memoized        *)
(* computeds, effects and the schedulers that re-run them.                 *)
(*                                                                         *)
(* The repository holds several variants of the same public surface.       *)
(* Four of them are modelled; the variable impl says which one a           *)
(* behaviour runs:                                                         *)
(*   "make"    src/src/make/index.ts (SettableSignalImpl) on the           *)
(*             producer/consumer graph, with the effects of the test       *)
(*             helper (testingEffect / flushEffects, src/unnamed/part_012) *)
(*   "index"   src/src/index.ts (signal, memo, effect, untrack) on         *)
(*             Signal.State / Signal.Computed / Signal.subtle.Watcher      *)
(*   "binding" src/src/new/binding.ts (state, computed, watch, untrack)    *)
(*   "vue"     the variants on @vue/reactivity (src/unnamed/part_000 and   *)
(*             part_001): refs, effects that run at once                   *)
(* On top of them: the changes() subscription of index.ts and binding.ts,  *)
(* the Lit integration (SignalTracker, src/unnamed/part_006, and the       *)
(* track directive, src/unnamed/part_007), resource()                      *)
(* (src/unnamed/part_003) and store() (src/src/store.ts) on the core of    *)
(* part_001, and the reactive proxy of src/src/reactive.ts on Signal.State *)
(* and Signal.Computed.                                                    *)
(* The graph itself (edges, versions, staleness, polling) is not under     *)
(* src/; it is modelled from sections 3 and 4 of the specification.        *)
(*                                                                         *)
(* User callbacks are data: every computed and effect of a scenario has an *)
(* expression that Eval interprets with the node installed as the active   *)
(* consumer.                                                               *)
(***************************************************************************)
EXTENDS Integers, Sequences, FiniteSets, TLC

VARIABLES
    sc,            \* the scenario (the user program) of this behaviour
    impl,          \* the library variant of this behaviour
    prog,          \* node -> the signal, computed or effect the program created under that name
    value,         \* node -> current / cached value
    valueVersion,  \* node -> version of the value
    stale,         \* computed -> must re-verify before returning its value
    trackingVersion, \* consumer -> number of tracked runs
    producers,     \* consumer -> sequence of edges [p, at, seen]
    dirty,         \* Watch / Watcher -> dirty flag
    queue,         \* the test helper's set of scheduled Watch objects, in insertion order
    needsEnqueue,  \* index.ts / binding.ts: module variable needsEnqueue
    microtasks,    \* callbacks handed to queueMicrotask and not yet run
    heap,          \* object reference -> content (changed in place by mutate)
    activeConsumer, \* the tracking context slot
    status,        \* effect -> "none" | "live" | "disposed"
    runs,          \* computed / effect -> number of runs of its callback
    seen,          \* effect -> what its latest run read
    sub,           \* the object returned by changes() and the iterations started on it
    lit,           \* the Lit element of the program, its part and its track directive
    res,           \* the closure of resource(): resolved, promise, the fetches started
    storage,       \* the store of the program: its storage engine's entries
    proxy,         \* the reactive proxy of the program: its target and metadata.signals
    writes,        \* number of write operations so far (bounded)
    computedSince, \* the memos whose computation ran since the latest write operation
    lastOp         \* the latest user operation and what it observed

vars == <<sc, impl, prog, value, valueVersion, stale, trackingVersion, producers, dirty, queue,
          needsEnqueue, microtasks, heap, activeConsumer, status, runs, seen, sub,
          lit, res, storage, proxy, writes, computedSince, lastOp>>

\* The number of write operations (set, update, mutate) of one behaviour.
MaxWrites == 3

\* The number of runs of one memo beyond which it is read no more: a memo that
\* throws runs again at every read.
MaxRuns == 4

\* The number of times the element of one behaviour is connected.
MaxConnects == 3

\* The number of calls of the fetcher of the resource of one behaviour.
MaxFetches == 2

\* The length of the arrays handed to add and delete of a store.
MaxArray == 2

----------------------------------------------------------------------------
(* Values.  A JavaScript value is a primitive (compared by value) or an    *)
(* object reference (compared by identity; its content lives in heap).     *)

Prim(i) == [k |-> "prim", v |-> i]
Obj(i) == [k |-> "obj", v |-> i]
UNSET == [k |-> "unset", v |-> 0]
COMPUTING == [k |-> "computing", v |-> 0]
UNDEFINED == [k |-> "undefined", v |-> 0]
\* What a call that threw hands back in place of a value.
THROWN == [k |-> "thrown", v |-> 0]


\* Object.is on the modelled values: same primitive or same reference.
ObjectIs(a, b) == a = b

\* defaultEquals: Object.is, except that an object is never equal to anything.
defaultEquals(a, b) == (a.k # "obj") /\ ObjectIs(a, b)

Truthy(a) == a.k = "obj" \/ (a.k = "prim" /\ a.v # 0)

\* The booleans that load() is called with.
False == [k |-> "bool", v |-> 0]

\* The states of a resource.
St ==
    [unresolved |-> Prim(0), pending |-> Prim(1), ready |-> Prim(2),
     refreshing |-> Prim(3), errored |-> Prim(4)]

\* What the i-th promise the fetcher returned resolves to, and the Error that
\* castError makes of what it rejects with.
Fetched(i) == Prim(10 + i)
Failure(i) == Prim(20 + i)

\* The items a store holds: objects with an id, which is a number or a
\* string, and a content (rev).  id.toString() gives the same string for the
\* number 1 and the string "1".
Id(t, v) == [t |-> t, v |-> v]
Item(id, rev) == [id |-> id, rev |-> rev]
Items ==
    {Item(Id("num", 1), 0), Item(Id("num", 1), 1), Item(Id("str", 1), 0),
     Item(Id("num", 2), 0)}
NoItem == Item(Id("none", 0), 0)
toString(id) == id.v
IdStrings == {toString(it.id) : it \in Items}

\* What the storage engine holds under the store's key before the store is
\* created: nothing, or an item persisted by an earlier session.
NothingPersisted == [k \in IdStrings |-> NoItem]

\* An array of items as a value.
ListOf(seq) == [k |-> "list", v |-> seq]


----------------------------------------------------------------------------
(* Expressions: the bodies of the user's callbacks.                        *)

\* An expression is a record with its operator op and its operands: Nul has
\* none, Un an expression a, At the name n of a node, Bin expressions a and b.
Nul(op) == [op |-> op]
Un(op, e) == [op |-> op, a |-> e]
At(op, n) == [op |-> op, n |-> n]
Bin(op, l, r) == [op |-> op, a |-> l, b |-> r]
Const(v) == [op |-> "const", v |-> v]
Rd(n) == [op |-> "read", n |-> n]
If(c, t, e) == [op |-> "if", c |-> c, t |-> t, e |-> e]
Wr(n, e) == [op |-> "write", n |-> n, a |-> e]

Signal(init, dom) == [kind |-> "signal", init |-> init, dom |-> dom, expr |-> Const(UNSET)]
Memo(e) == [kind |-> "memo", init |-> UNSET, dom |-> {}, expr |-> e]
Effect(e) == [kind |-> "effect", init |-> UNSET, dom |-> {}, expr |-> e]

\* A two-word string such as 'John Doe' is the primitive 10 * first + last.
Names == {Prim(11), Prim(12), Prim(22)}
Bits == {Prim(0), Prim(1)}


Prog(scn) ==
    \* test/glitch-free.test.ts: name -> {first, last} -> full.
    CASE scn = "diamond" ->
         [name |-> Signal(Prim(11), Names),
          first |-> Memo(Un("fst", Rd("name"))),
          last |-> Memo(Un("snd", Rd("name"))),
          full |-> Memo(Bin("pair", Rd("first"), Rd("last")))]
    \* test/watch.test.ts: an effect reading useCountA() ? countA() : countB().
      [] scn = "cond" ->
         [useCountA |-> Signal(Prim(1), Bits),
          countA |-> Signal(Prim(0), Bits),
          countB |-> Signal(Prim(1), Bits),
          eff |-> Effect(If(Rd("useCountA"), Rd("countA"), Rd("countB")))]
    \* test/non-reactive.test.ts: reads inside untrack, beside a tracked read.
      [] scn = "untrack" ->
         [s |-> Signal(Prim(0), Bits),
          t |-> Signal(Prim(0), Bits),
          double |-> Memo(Bin("pair", Un("untrack", Rd("s")), Rd("t"))),
          tick |-> Memo(Const(Prim(1))),
          eff |-> Effect(Bin("pair", Un("untrack", Rd("s")), Rd("t")))]
    \* test/watch.test.ts: isEven = computed(() => source() % 2 === 0), read by a
    \* memo and by an effect.
      [] scn = "even" ->
         [source |-> Signal(Prim(1), {Prim(1), Prim(3), Prim(4)}),
          isEven |-> Memo(Un("even", Rd("source"))),
          label |-> Memo(Rd("isEven")),
          eff |-> Effect(Rd("isEven"))]
    \* test/memo.test.ts: displayName = memo(() => show() ? name() : 'anonymous').
      [] scn = "switch" ->
         [show |-> Signal(Prim(1), Bits),
          name |-> Signal(Prim(0), Bits),
          displayName |-> Memo(If(Rd("show"), Rd("name"), Const(Prim(7))))]
    \* NodesOf("effect") that write signals: copy is () => y.set(x()), and reset is
    \* () => { if (y()) y.set(0) }, which writes the signal it has just read.
      [] scn = "chain" ->
         [x |-> Signal(Prim(0), Bits),
          y |-> Signal(Prim(0), Bits),
          copy |-> Effect(Wr("y", Rd("x"))),
          reset |-> Effect(If(Rd("y"), Wr("y", Const(Prim(0))), Const(Prim(0))))]
    \* Callbacks that throw: boom is an effect that throws while bad is set, other
    \* an effect that reads the same signal, risky a memo that throws while bad is set.
      [] scn = "throw" ->
         [bad |-> Signal(Prim(0), Bits),
          risky |-> Memo(If(Rd("bad"), Nul("throw"), Const(Prim(0)))),
          boom |-> Effect(If(Rd("bad"), Nul("throw"), Const(Prim(0)))),
          other |-> Effect(Rd("bad"))]
    \* A memo that catches what its untracked function throws and then reads t:
    \* () => { try { untracked(() => { throw e }) } catch { } return 10 + t() }
      [] scn = "catch" ->
         [t |-> Signal(Prim(0), Bits),
          guarded |-> Memo(Bin("pair", Bin("try", Un("untrack", Nul("throw")), Const(Prim(1))), Rd("t")))]
    \* A computed that calls update on a signal: () => g() ? c.update(v => v + 1) : 0
      [] scn = "bump" ->
         [g |-> Signal(Prim(0), Bits),
          c |-> Signal(Prim(0), Bits),
          bumper |-> Memo(If(Rd("g"), At("update", "c"), Const(Prim(0))))]
    \* An effect that peeks at a and reads b: () => log.push([a.peek(), b()])
      [] scn = "peek" ->
         [a |-> Signal(Prim(0), Bits),
          b |-> Signal(Prim(0), Bits),
          spy |-> Effect(Bin("pair", At("peek", "a"), Rd("b")))]
    \* Computeds that read themselves while on is set: self directly, ping through pong.
      [] scn = "cycle" ->
         [on |-> Signal(Prim(1), Bits),
          self |-> Memo(If(Rd("on"), Rd("self"), Const(Prim(5)))),
          ping |-> Memo(If(Rd("on"), Rd("pong"), Const(Prim(5)))),
          pong |-> Memo(Rd("ping"))]
    \* const sub = src.changes(), iterated at most twice.  The callback of the effect
    \* behind iteration i resolves the latest promise with the signal's value, read
    \* through new Signal.Computed(signal) in index.ts and through the accessor in
    \* binding.ts, and pushes a new promise.
      [] scn = "changes" ->
         [src |-> Signal(Prim(0), Bits),
          memoized1 |-> Memo(Rd("src")),
          memoized2 |-> Memo(Rd("src")),
          it1 |-> Effect([op |-> "emit", i |-> 1, a |-> IF impl = "index" THEN Rd("memoized1") ELSE Rd("src")]),
          it2 |-> Effect([op |-> "emit", i |-> 2, a |-> IF impl = "index" THEN Rd("memoized2") ELSE Rd("src")])]
    \* A LitElement whose render() is html`<p>count: ${track(count)}</p>`: dir is
    \* the effect that TrackDirective.render creates, re1 and re2 the effects of
    \* its reconnected().
      [] scn = "track" ->
         [count |-> Signal(Prim(0), Bits),
          dir |-> Effect(At("dir", "count")),
          re1 |-> Effect(Un("setValue", Rd("count"))),
          re2 |-> Effect(Un("setValue", Rd("count")))]
    \* A SignalTracker(LitElement) whose render() is html`<p>count: ${countPlusOne()}</p>`:
    \* every performUpdate creates a new effect, host1, host2, ...
      [] scn = "tracker" ->
         [count |-> Signal(Prim(0), Bits),
          countPlusOne |-> Memo(Un("inc", Rd("count"))),
          host1 |-> Effect(At("host", "host1")),
          host2 |-> Effect(At("host", "host2")),
          host3 |-> Effect(At("host", "host3"))]
    \* A SignalTracker(LitElement) whose render() is html`<p>count: ${track(count)}</p>`.
      [] scn = "both" ->
         [count |-> Signal(Prim(0), Bits),
          host1 |-> Effect(At("host", "host1")),
          host2 |-> Effect(At("host", "host2")),
          host3 |-> Effect(At("host", "host3")),
          dir |-> Effect(At("dir", "count")),
          re1 |-> Effect(Un("setValue", Rd("count"))),
          re2 |-> Effect(Un("setValue", Rd("count")))]
    \* const x = signal(0, equal) with an equality function that throws on one
    \* value: (a, b) => { if (b === 3) throw new Error(); return a === b }, read by
    \* a memo and by an effect.
      [] scn = "equal" ->
         [x |-> Signal(Prim(0), {Prim(0), Prim(1), Prim(3)}),
          twice |-> Memo(Rd("x")),
          eff |-> Effect(Rd("x"))]
    \* const user = resource(key, fetcher) with an asynchronous fetcher: value,
    \* error and state are the signals of the closure, read, rstate (user.state)
    \* and loading computeds it returns, loader its effect(() => { load(false) }).
    \* The program observes it with two effects:
    \*   obs     () => { let v; try { v = user() } catch { v = THROWN }
    \*                   log.push([user.state(), v]) }
    \*   strict  () => { user() }
      [] scn = "resource" ->
         [key |-> Signal(Prim(0), Bits),
          value |-> Signal(UNDEFINED, {}),
          error |-> Signal(UNDEFINED, {}),
          state |-> Signal(St.unresolved, {}),
          read |-> Memo(Nul("resRead")),
          rstate |-> Memo(Rd("state")),
          loading |-> Memo(Un("isLoading", Rd("state"))),
          loader |-> Effect(Un("load", False)),
          obs |-> Effect(Bin("log", Rd("rstate"), Bin("try", Rd("read"), Const(THROWN)))),
          strict |-> Effect(Rd("read"))]
    \* const todos = store({ key, provider, initialValue }): items is the signal
    \* node.value, isEmpty the computed (or method) this.value().length === 0.
      [] scn = "store" ->
         [items |-> Signal(ListOf(<<>>), {}),
          isEmpty |-> Memo(Un("isEmpty", Rd("items")))]
    \* const o = createProxy({ value: { p: 0 } }); const view = new
    \* Signal.Computed(() => o.p): p is the Signal.State that metadata.signals
    \* holds for the property once it exists.
      [] scn = "proxy" ->
         [p |-> Signal(UNSET, {}),
          view |-> Memo(Nul("get"))]
    \* test/signal.test.ts, test/memo.test.ts: a signal holding an object or a
    \* primitive, a memo over its content, an effect that reads the memo.
      [] OTHER ->
         [state |-> Signal(Obj(1), {Obj(1), Obj(2), Prim(0), Prim(1)}),
          joined |-> Memo(Un("deref", Rd("state"))),
          eff |-> Effect(Rd("joined")),
          idle |-> Effect(Const(Prim(1)))]

\* Creation order of the nodes (nextReactiveId): the order of notification.
Order(scn) ==
    CASE scn = "diamond" -> <<"name", "first", "last", "full">>
      [] scn = "cond" -> <<"useCountA", "countA", "countB", "eff">>
      [] scn = "untrack" -> <<"s", "t", "double", "tick", "eff">>
      [] scn = "even" -> <<"source", "isEven", "label", "eff">>
      [] scn = "switch" -> <<"show", "name", "displayName">>
      [] scn = "chain" -> <<"x", "y", "copy", "reset">>
      [] scn = "throw" -> <<"bad", "risky", "boom", "other">>
      [] scn = "catch" -> <<"t", "guarded">>
      [] scn = "bump" -> <<"g", "c", "bumper">>
      [] scn = "peek" -> <<"a", "b", "spy">>
      [] scn = "cycle" -> <<"on", "self", "ping", "pong">>
      [] scn = "changes" -> <<"src", "memoized1", "memoized2", "it1", "it2">>
      [] scn = "track" -> <<"count", "dir", "re1", "re2">>
      [] scn = "tracker" -> <<"count", "countPlusOne", "host1", "host2", "host3">>
      [] scn = "both" -> <<"count", "host1", "dir", "host2", "host3", "re1", "re2">>
      [] scn = "equal" -> <<"x", "twice", "eff">>
      [] scn = "resource" -> <<"key", "value", "error", "state", "read", "rstate",
                               "loading", "loader", "obs", "strict">>
      [] scn = "store" -> <<"items", "isEmpty">>
      [] scn = "proxy" -> <<"p", "view">>
      [] OTHER -> <<"state", "joined", "eff", "idle">>

\* The Signal.subtle.Watcher of index.ts / binding.ts, a consumer of the effects' computeds.
W == "watcher"
NoConsumer == "none"

NodesOf(kind) == {n \in DOMAIN prog : prog[n].kind = kind}
Kind(n) == IF n = W THEN "watcher" ELSE prog[n].kind
Expr(n) == prog[n].expr

\* The iterations started on the one subscription object, and the effect of each.
Iterations == {1, 2}
ItEffect(i) == IF i = 1 THEN "it1" ELSE "it2"

\* The programs with a Lit element; which of them use the SignalTracker mixin
\* and which the track directive; the effects each of the two may create.
LitScenarios == {"track", "tracker", "both"}
UsesTracker == sc \in {"tracker", "both"}
HostEffects == <<"host1", "host2", "host3">>
ReconnectEffects == <<"re1", "re2">>

----------------------------------------------------------------------------
(* The graph.  The operators below thread a store s, a record holding the   *)
(* fields of the graph, through one synchronous call chain.                *)

Store ==
    [value |-> value, valueVersion |-> valueVersion, stale |-> stale,
     trackingVersion |-> trackingVersion, producers |-> producers, dirty |-> dirty,
     queue |-> queue, needsEnqueue |-> needsEnqueue, microtasks |-> microtasks,
     heap |-> heap, activeConsumer |-> activeConsumer, status |-> status,
     runs |-> runs, seen |-> seen, sub |-> sub, lit |-> lit,
     res |-> [res EXCEPT !.log = <<>>],
     storage |-> storage, proxy |-> proxy,
     exc |-> FALSE]

\* What an operation returns: the store it leaves and its result.  The field
\* exc of the store is set while an exception is propagating up the call chain.
Ret(s, v) == [s |-> s, v |-> v]
Raise(s) == Ret([s EXCEPT !.exc = TRUE], THROWN)

\* Evaluate v once, then F on its value: const x = v; return F(x).
Bind(v, F(_)) == CHOOSE r \in {F(x) : x \in {v}} : TRUE

\* An effect is a Watch in the make variant and a Signal.Computed under a Watcher otherwise.
IsWatch(n) == Kind(n) = "effect" /\ impl = "make"
IsComputed(n) == Kind(n) = "memo" \/ (Kind(n) = "effect" /\ impl \notin {"make", "vue"})
\* An effect of @vue/reactivity has no scheduler: a write collects the effects
\* it triggers and runs them before it returns.

EdgeIndex(es, p) ==
    IF \E i \in 1..Len(es) : es[i].p = p
    THEN CHOOSE i \in 1..Len(es) : es[i].p = p
    ELSE 0

RemoveAt(es, i) == [j \in 1..(Len(es) - 1) |-> IF j < i THEN es[j] ELSE es[j + 1]]

HasEdge(s, c, p) == EdgeIndex(s.producers[c], p) # 0

\* setActiveConsumer
setActiveConsumer(s, c) == [s EXCEPT !.activeConsumer = c]

\* producerAccessed: record (or refresh) the edge from the active consumer to p.
producerAccessed(s, p) ==
    IF s.activeConsumer = NoConsumer
    THEN s
    ELSE LET c == s.activeConsumer
             es == s.producers[c]
             i == EdgeIndex(es, p)
             e == [p |-> p, at |-> s.trackingVersion[c], seen |-> s.valueVersion[p]]
         IN IF i = 0
            THEN [s EXCEPT !.producers[c] = Append(es, e)]
            ELSE [s EXCEPT !.producers[c][i] = e]

\* The callback handed to new Signal.subtle.Watcher.
WatcherNotify(s) ==
    IF s.needsEnqueue
    THEN [s EXCEPT !.needsEnqueue = FALSE,
                   !.microtasks = Append(@, "processPendingEffects")]
    ELSE s

\* testingEffect's schedule function: queue.add.bind(queue)
schedule(s, w) ==
    IF \E i \in 1..Len(s.queue) : s.queue[i] = w
    THEN s
    ELSE [s EXCEPT !.queue = Append(@, w)]

RECURSIVE producerNotifyConsumers(_, _)
RECURSIVE NotifyEach(_, _, _)
RECURSIVE notify(_, _)

\* Consumer.notify: a computed becomes stale and passes the news on; a Watch
\* is scheduled once; the Watcher calls its callback once until watch() resets it.
notify(s, c) ==
    CASE IsComputed(c) ->
           IF s.stale[c] THEN s
           ELSE producerNotifyConsumers([s EXCEPT !.stale[c] = TRUE], c)
      [] IsWatch(c) ->
           IF s.dirty[c] THEN s
           ELSE [schedule(s, c) EXCEPT !.dirty[c] = TRUE]
      [] Kind(c) = "effect" /\ impl = "vue" ->
           IF s.status[c] = "live" THEN schedule(s, c) ELSE s
      [] OTHER ->
           IF s.dirty[W] THEN s
           ELSE WatcherNotify([s EXCEPT !.dirty[W] = TRUE])

NotifyEach(s, p, cs) ==
    IF cs = <<>> THEN s
    ELSE LET c == Head(cs)
             i == EdgeIndex(s.producers[c], p)
         IN IF i = 0 THEN NotifyEach(s, p, Tail(cs))
            ELSE IF s.producers[c][i].at # s.trackingVersion[c]
                 THEN NotifyEach([s EXCEPT !.producers[c] = RemoveAt(@, i)], p, Tail(cs))
                 ELSE NotifyEach(notify(s, c), p, Tail(cs))

\* producerNotifyConsumers: drop the edges of earlier runs, notify the others,
\* the consumers recorded for p in creation order, the Watcher last.
producerNotifyConsumers(s, p) ==
    NotifyEach(s, p, SelectSeq(Order(sc) \o <<W>>, LAMBDA c : HasEdge(s, c, p)))

\* The equality of a computed: Object.is for new Signal.Computed(fn) without
\* options (index.ts memo, every effect), defaultEquals otherwise.
ComputedEquals(n, a, b) ==
    IF impl = "index" \/ Kind(n) = "effect" THEN ObjectIs(a, b) ELSE defaultEquals(a, b)

Apply1(op, a, s) ==
    CASE op = "fst" -> Prim(a.v \div 10)
      [] op = "snd" -> Prim(a.v % 10)
      [] op = "even" -> Prim(IF a.v % 2 = 0 THEN 1 ELSE 0)
      [] op = "inc" -> Prim(a.v + 1)
      [] op = "isLoading" -> Prim(IF a \in {St.pending, St.refreshing} THEN 1 ELSE 0)
      [] op = "isEmpty" -> Prim(IF Len(a.v) = 0 THEN 1 ELSE 0)
      [] OTHER -> IF a.k = "obj" THEN Prim(s.heap[a.v]) ELSE a

RECURSIVE Eval(_, _)
RECURSIVE Set(_, _, _)
RECURSIVE Update(_, _)
RECURSIVE checkForChangedValue(_, _)
RECURSIVE recomputeValue(_, _)
RECURSIVE consumerPollValueStatus(_, _, _)
RECURSIVE producerPollStatus(_, _, _)
RECURSIVE superPerformUpdate(_)
RECURSIVE TrackDirective_render(_, _)

\* The signal's getter: SettableSignalImpl.signal, state.get.bind(state), signal.get().
SignalGet(s, n) == Ret(producerAccessed(s, n), s.value[n])

\* The computed's getter: bring the value up to date, then record the read.
ComputedGet(s, n) ==
    Bind(checkForChangedValue(s, n), LAMBDA s1 :
        IF s1.exc THEN Ret(s1, THROWN)
        ELSE Ret(producerAccessed(s1, n), s1.value[n]))

\* untrack / untracked: run the function with no active consumer, then restore it.
\* untrack that leaves the active consumer in place.
untrackTracking(s, x) == Eval(s, x)

untrack(s, x) ==
    Bind(Eval(setActiveConsumer(s, NoConsumer), x), LAMBDA r :
        Ret(setActiveConsumer(r.s, s.activeConsumer), r.v))

\* untracked of the @vue/reactivity variant: pauseTracking(); fn(); resetTracking(),
\* with no try/finally: resetTracking is skipped when fn throws.
untracked(s, x) ==
    Bind(Eval(setActiveConsumer(s, NoConsumer), x), LAMBDA r :
        IF r.s.exc THEN r
        ELSE Ret(setActiveConsumer(r.s, s.activeConsumer), r.v))

Untrack(s, x) == IF impl = "vue" THEN untracked(s, x) ELSE untrack(s, x)


\* SettableSignalImpl.peek: untracked(this.signal), the method passed unbound.
peek(s, n) == untrack(s, Nul("unbound"))

\* memo / computed: the getter of a Signal.Computed; derived: the bare expression.
derived(s, n) == Eval(s, Expr(n))

\* A memo without its cache: every read runs the computation.
memoUncached(s, n) ==
    Bind(recomputeValue(s, n), LAMBDA s1 :
        IF s1.exc THEN Ret(s1, THROWN)
        ELSE Ret(producerAccessed(s1, n), s1.value[n]))

memo(s, n) == ComputedGet(s, n)

\* ReactiveElement.requestUpdate(): an update is pending until performUpdate ran.
requestUpdate(s) == [s EXCEPT !.lit.isUpdatePending = TRUE]

\* AsyncDirective.setValue(value): the part shows the value.
setValue(s, v) == [s EXCEPT !.lit.text = v]

\* The promises array of one iteration: a cell is a promise not yet resolved,
\* a resolved one, or the hole that delete leaves.
Promise(st, v) == [st |-> st, v |-> v]

\* resolve(value): the closure variable resolve belongs to the promise pushed last.
resolve(s, i, v) ==
    LET ps == s.sub.its[i].promises
    IN IF ps # <<>> /\ ps[Len(ps)].st = "pending"
       THEN [s EXCEPT !.sub.its[i].promises[Len(ps)] = Promise("resolved", v),
                      !.sub.its[i].emitted = Append(@, v)]
       ELSE s


\* resource(): the function of the computed read.
read(s) ==
    Bind(SignalGet(s, "value"), LAMBDA v :
        Bind(SignalGet(v.s, "error"), LAMBDA err :
            IF err.v # UNDEFINED /\ err.s.res.promise = 0
            THEN Raise(err.s)
            ELSE Ret(err.s, v.v)))

\* reactive.ts createProxy({ value, untrackedProps = [] }): the parameter is
\* destructured, so what is proxied is the property value of the argument;
\* a primitive has none.  (The proxy of an object is that object here.)
createProxy(options) ==
    CASE options.k = "options" -> options.v
      [] options.k = "box" -> Prim(options.v)
      [] OTHER -> UNDEFINED

\* reactive.ts createHandler().get for the own, writable property p: in a
\* reactive context the property gets its Signal.State on the first read.
handler_get(s) ==
    Bind(IF ~s.proxy.has /\ s.activeConsumer # NoConsumer
         THEN [s EXCEPT !.proxy.has = TRUE,
                        !.value["p"] = createProxy([k |-> "options", v |-> s.proxy.target])]
         ELSE s,
         LAMBDA s1 : IF s1.proxy.has
                     THEN SignalGet(s1, "p")
                     ELSE Ret(s1, s1.proxy.target))

\* One run of a user callback body.
Eval(s, x) ==
    CASE x.op = "const" -> Ret(s, x.v)
      [] x.op = "read" ->
           (CASE Kind(x.n) = "signal" -> SignalGet(s, x.n)
              [] Kind(x.n) = "memo" -> memo(s, x.n)
              [] OTHER -> derived(s, x.n))
      [] x.op = "if" ->
           Bind(Eval(s, x.c), LAMBDA c :
               IF c.s.exc THEN c
               ELSE Eval(c.s, IF Truthy(c.v) THEN x.t ELSE x.e))
      [] x.op = "untrack" -> Untrack(s, x.a)
      [] x.op = "write" ->
           Bind(Eval(s, x.a), LAMBDA a :
               IF a.s.exc THEN a ELSE Ret(Set(a.s, x.n, a.v), a.v))
      [] x.op = "update" -> Ret(Update(s, x.n), UNDEFINED)
      [] x.op = "peek" -> peek(s, x.n)
      \* SettableSignalImpl.signal called as a plain function, this being
      \* undefined: producerAccessed(undefined) returns at once when there is no
      \* active consumer, and this.value is a TypeError.
      [] x.op = "unbound" -> Raise(s)
      [] x.op = "throw" -> Raise(s)
      [] x.op = "host" ->
           IF x.n \in s.lit.updateFromLit
           THEN Ret(superPerformUpdate([s EXCEPT !.lit.updateFromLit = @ \ {x.n}]),
                    UNDEFINED)
           ELSE Ret(requestUpdate(s), UNDEFINED)
      [] x.op = "dir" ->
           IF "dir" \in s.lit.updateFromLit
           THEN Ret(s, UNDEFINED)
           ELSE Bind(Eval(s, Rd(x.n)), LAMBDA a :
                    IF a.s.exc THEN a ELSE Ret(setValue(a.s, a.v), UNDEFINED))
      [] x.op = "setValue" ->
           Bind(Eval(s, x.a), LAMBDA a :
               IF a.s.exc THEN a ELSE Ret(setValue(a.s, a.v), UNDEFINED))
      [] x.op = "track" -> TrackDirective_render(s, x.n)
      [] x.op = "emit" ->
           Bind(Eval(s, x.a), LAMBDA a :
               IF a.s.exc THEN a
               \* resolve(value); promises.push(new Promise(r => { resolve = r }))
               ELSE Ret([resolve(a.s, x.i, a.v) EXCEPT
                             !.sub.its[x.i].promises = Append(@, Promise("pending", UNSET))],
                        UNDEFINED))
      [] x.op = "load" ->
           IF x.a # False THEN Ret(s, UNDEFINED) ELSE Eval(s, Wr("state", Un("fetch", Rd("key"))))
      [] x.op = "fetch" ->
           Bind(Eval(s, x.a), LAMBDA k :
               IF k.s.exc THEN k
               ELSE Ret([k.s EXCEPT !.res.fetches = Append(@, [key |-> k.v, st |-> "pending"]),
                                    !.res.promise = Len(k.s.res.fetches) + 1],
                        IF k.s.res.resolved THEN St.refreshing ELSE St.pending))
      [] x.op = "resRead" -> read(s)
      [] x.op = "log" ->
           Bind(Eval(s, x.a), LAMBDA st :
               IF st.s.exc THEN st
               ELSE Bind(Eval(st.s, x.b), LAMBDA v :
                        IF v.s.exc THEN v
                        ELSE Ret([v.s EXCEPT !.res.log = Append(@, [st |-> st.v, v |-> v.v])],
                                 UNDEFINED)))
      [] x.op = "get" -> handler_get(s)
      [] x.op = "try" ->
           Bind(Eval(s, x.a), LAMBDA a :
               IF a.s.exc THEN Eval([a.s EXCEPT !.exc = FALSE], x.b) ELSE a)
      [] x.op = "pair" ->
           Bind(Eval(s, x.a), LAMBDA l :
               IF l.s.exc THEN l
               ELSE Bind(Eval(l.s, x.b), LAMBDA r :
                        IF r.s.exc THEN r
                        ELSE Ret(r.s, Prim(10 * l.v.v + r.v.v))))
      [] OTHER ->
           Bind(Eval(s, x.a), LAMBDA a :
               IF a.s.exc THEN a ELSE Ret(a.s, Apply1(x.op, a.v, a.s)))

\* producerPollStatus: has p a version other than the one the edge saw?
producerPollStatus(s, p, lastSeen) ==
    IF s.valueVersion[p] # lastSeen \/ ~IsComputed(p)
    THEN Ret(s, s.valueVersion[p] # lastSeen)
    ELSE Bind(checkForChangedValue(s, p), LAMBDA s1 :
             IF s1.exc THEN Ret(s1, THROWN)
             ELSE Ret(s1, s1.valueVersion[p] # lastSeen))

\* consumerPollValueStatus: poll the producers in order, from index i on, dropping
\* edges of earlier runs; stop at the first that changed.
consumerPollValueStatus(s, c, i) ==
    IF i > Len(s.producers[c])
    THEN Ret(s, FALSE)
    ELSE IF s.producers[c][i].at # s.trackingVersion[c]
         THEN consumerPollValueStatus([s EXCEPT !.producers[c] = RemoveAt(@, i)], c, i)
         ELSE Bind(producerPollStatus(s, s.producers[c][i].p, s.producers[c][i].seen),
                   LAMBDA r : IF r.s.exc \/ r.v = TRUE THEN r
                              ELSE consumerPollValueStatus(r.s, c, i + 1))

\* ComputedImpl.checkForChangedValue
checkForChangedValue(s, n) ==
    IF ~s.stale[n]
    THEN s
    ELSE Bind(IF s.value[n] # UNSET /\ s.value[n] # COMPUTING
              THEN consumerPollValueStatus(s, n, 1)
              ELSE Ret(s, TRUE),
              LAMBDA r : IF r.s.exc THEN r.s
                         ELSE IF r.v THEN recomputeValue(r.s, n)
                         ELSE [r.s EXCEPT !.stale[n] = FALSE])

\* A run that keeps the tracking version: the edges of earlier runs stay current.
beginRunKeepsEdges(s, n) == [s EXCEPT !.value[n] = COMPUTING, !.activeConsumer = n]

\* The start of a computed's run: a new tracking version retires the edges of
\* the earlier runs, and the node becomes the active consumer.
beginRun(s, n) ==
    [s EXCEPT !.value[n] = COMPUTING,
              !.trackingVersion[n] = @ + 1,
              !.activeConsumer = n]

\* A computation that threw: the active consumer is restored, nothing is
\* cached and the node stays stale, so the next read runs the computation again.
recomputeThrew(s, n, prev) ==
    [s EXCEPT !.activeConsumer = prev,
              !.value[n] = UNSET,
              !.runs[n] = @ + 1,
              !.seen[n] = IF Kind(n) = "effect" THEN THROWN ELSE @]

\* A read of a computed that is in the middle of its own computation goes on
\* as if nothing were wrong: the reader gets the placeholder.
detectCycleSilent(s, n) == s

\* The re-entrancy guard: a computed whose computation is already running is
\* not run again, the read fails with the cyclic-dependency error.
detectCycle(s, n) == [s EXCEPT !.exc = TRUE]

\* ComputedImpl.recomputeValue: run the computation as the active consumer; the
\* version advances only when the result is not equal to the previous value.
recomputeValue(s, n) ==
    IF s.value[n] = COMPUTING THEN detectCycle(s, n) ELSE
    Bind(Eval(beginRun(s, n), Expr(n)),
         LAMBDA r :
             IF r.s.exc THEN recomputeThrew(r.s, n, s.activeConsumer) ELSE
             [r.s EXCEPT
                 !.activeConsumer = s.activeConsumer,
                 !.stale[n] = FALSE,
                 !.runs[n] = @ + 1,
                 !.seen[n] = IF Kind(n) = "effect" THEN r.v ELSE @,
                 !.value[n] =
                     IF Kind(n) = "effect"
                     THEN UNDEFINED
                     ELSE IF s.value[n] # UNSET /\ ComputedEquals(n, s.value[n], r.v)
                          THEN s.value[n]
                          ELSE r.v,
                 !.valueVersion[n] =
                     IF s.value[n] # UNSET
                        /\ ComputedEquals(n, s.value[n],
                                          IF Kind(n) = "effect" THEN UNDEFINED ELSE r.v)
                     THEN @
                     ELSE @ + 1])

----------------------------------------------------------------------------
(* Settable signals, one set of methods per variant.                       *)

\* The user functions handed to update and mutate: v => v + 1 on a bit (an
\* object is returned as it is), and list => list.push(...) on an object.
updater(v) == IF v.k = "prim" THEN Prim((v.v + 1) % 2) ELSE v
mutator(s, v) == IF v.k = "obj" THEN [s EXCEPT !.heap[v.v] = 1 - @] ELSE s

\* The equality function a signal was created with: defaultEquals unless the
\* program passes its own, which throws when the new value is 3 and is ===
\* otherwise.  equalThrows says whether the call throws, equal what it returns
\* when it does not.
equalThrows(n, a, b) == sc = "equal" /\ b = Prim(3)
equal(n, a, b) == IF sc = "equal" THEN ObjectIs(a, b) ELSE defaultEquals(a, b)

\* set without the equality check: every call is a change.
setAlways(s, n, newValue) ==
    producerNotifyConsumers(
        [s EXCEPT !.value[n] = newValue, !.valueVersion[n] = @ + 1], n)

\* set that stores and notifies but leaves valueVersion as it was.
setSilent(s, n, newValue) ==
    IF ~defaultEquals(s.value[n], newValue)
    THEN producerNotifyConsumers([s EXCEPT !.value[n] = newValue], n)
    ELSE s

\* set that stores the new value before it asks the equality function.
setStoresFirst(s, n, newValue) ==
    IF equalThrows(n, s.value[n], newValue)
    THEN [s EXCEPT !.value[n] = newValue, !.exc = TRUE]
    ELSE IF ~equal(n, s.value[n], newValue)
    THEN producerNotifyConsumers(
             [s EXCEPT !.value[n] = newValue, !.valueVersion[n] = @ + 1], n)
    ELSE s

\* make/index.ts SettableSignalImpl.set; what this.equal throws leaves set
\* before anything is assigned.
set(s, n, newValue) ==
    IF equalThrows(n, s.value[n], newValue)
    THEN [s EXCEPT !.exc = TRUE]
    ELSE IF ~equal(n, s.value[n], newValue)
    THEN producerNotifyConsumers(
             [s EXCEPT !.value[n] = newValue, !.valueVersion[n] = @ + 1], n)
    ELSE s

\* make/index.ts SettableSignalImpl.update
update(s, n) == set(s, n, updater(s.value[n]))

\* mutate that notifies but leaves valueVersion as it was.
mutateNoVersion(s, n) == producerNotifyConsumers(mutator(s, s.value[n]), n)

\* make/index.ts SettableSignalImpl.mutate
mutate(s, n) ==
    producerNotifyConsumers([mutator(s, s.value[n]) EXCEPT !.valueVersion[n] = @ + 1], n)

\* Signal.State.set; isEqual is the verdict of the equality the state was
\* constructed with on the current and the new value.
StateSet(s, n, newValue, isEqual) ==
    IF ~isEqual
    THEN producerNotifyConsumers(
             [s EXCEPT !.value[n] = newValue, !.valueVersion[n] = @ + 1], n)
    ELSE s

\* index.ts signal(): new Signal.State(initialValue), so Object.is decides;
\* update calls the updater on a tracked read and drops the result.
signal_set(s, n, newValue) == StateSet(s, n, newValue, ObjectIs(s.value[n], newValue))
signal_update(s, n) == SignalGet(s, n).s

\* binding.ts state(): equals is defaultEquals; update and mutate call the
\* user function on an untracked read and write nothing back.
state_set(s, n, newValue) == StateSet(s, n, newValue, defaultEquals(s.value[n], newValue))
state_update(s, n) == untrack(s, Rd(n)).s
state_mutate(s, n) == Bind(untrack(s, Rd(n)), LAMBDA r : mutator(r.s, r.v))

\* The @vue/reactivity variant: set is ref.value = value on a shallowRef, a
\* change when Object.is says so; update is ref.value = updater(ref.value).
ref_set(s, n, newValue) ==
    IF ~ObjectIs(s.value[n], newValue)
    THEN producerNotifyConsumers(
             [s EXCEPT !.value[n] = newValue, !.valueVersion[n] = @ + 1], n)
    ELSE s
ref_update(s, n) == Bind(SignalGet(s, n), LAMBDA r : ref_set(r.s, n, updater(r.v)))

Set(s, n, v) ==
    CASE impl = "make" -> set(s, n, v)
      [] impl = "index" -> signal_set(s, n, v)
      [] impl = "vue" -> ref_set(s, n, v)
      [] OTHER -> state_set(s, n, v)

Update(s, n) ==
    CASE impl = "make" -> update(s, n)
      [] impl = "index" -> signal_update(s, n)
      [] impl = "vue" -> ref_update(s, n)
      [] OTHER -> state_update(s, n)

\* index.ts defines no mutate (it is commented out): the call is a TypeError.
Mutate(s, n) == IF impl = "make" THEN mutate(s, n) ELSE state_mutate(s, n)

----------------------------------------------------------------------------
(* store(): a signal of items with a storage engine behind it.             *)

\* A JavaScript Map as the sequence of its entries in insertion order;
\* set on a key it holds replaces the value where it stands.
Map_set(m, key, item) ==
    IF \E i \in 1..Len(m) : m[i].key = key
    THEN [i \in 1..Len(m) |-> IF m[i].key = key THEN [key |-> key, item |-> item] ELSE m[i]]
    ELSE Append(m, [key |-> key, item |-> item])
Map_values(m) == [i \in 1..Len(m) |-> m[i].item]

\* for (let x of list) map.set(x.id.toString(), x)
RECURSIVE setEach(_, _)
setEach(m, list) ==
    IF list = <<>> THEN m
    ELSE setEach(Map_set(m, toString(Head(list).id), Head(list)), Tail(list))

\* The storage engine: set, delete, clear and get on the entries of one key
\* prefix; get gives the stored items, or null when there is none.
RECURSIVE StoredFrom(_, _)
StoredFrom(data, k) ==
    IF k \notin IdStrings THEN <<>>
    ELSE (IF data[k] = NoItem THEN <<>> ELSE <<data[k]>>) \o StoredFrom(data, k + 1)

\* persist that stores nothing.
persistNothing(s, items) == s

\* StoreImpl.persist / deletePersisted on an array: item by item.
RECURSIVE persist(_, _)
persist(s, items) ==
    IF items = <<>> THEN s
    ELSE persist([s EXCEPT !.storage.data[toString(Head(items).id)] = Head(items)],
                 Tail(items))

RECURSIVE deletePersisted(_, _)
deletePersisted(s, items) ==
    IF items = <<>> THEN s
    ELSE deletePersisted([s EXCEPT !.storage.data[toString(Head(items).id)] = NoItem],
                         Tail(items))

\* this.value.set(array) and this.value.update(fn) of the store: the array
\* is a new one each time, never Object.is the current one.
value_set(s, list) == StateSet(s, "items", ListOf(list), FALSE)

\* new StoreImpl({ key, provider, initialValue })
StoreImpl(s, initialValue) ==
    [s EXCEPT !.storage.created = TRUE,
              !.storage.initial = initialValue # UNDEFINED,
              !.value["items"] = IF initialValue # UNDEFINED
                                 THEN initialValue
                                 ELSE ListOf(StoredFrom(s.storage.data, 1))]

\* add that appends what it is given to the current items.
addAppend(s, item) ==
    value_set(persist(s, item.v), s.value["items"].v \o item.v)

\* StoreImpl.add(item | items): an argument of kind "array" is an array, one
\* of kind "item" a single item (held as a sequence of one).
add(s, item) ==
    IF item.k = "array"
    THEN LET addedItemsMap == setEach(<<>>, item.v)
             currentValuesMap ==
                 setEach(setEach(<<>>, s.value["items"].v), Map_values(addedItemsMap))
         IN value_set(persist(s, Map_values(addedItemsMap)), Map_values(currentValuesMap))
    ELSE LET currentValuesMap ==
                 Map_set(setEach(<<>>, s.value["items"].v), toString(item.v[1].id), item.v[1])
         IN value_set(persist(s, item.v), Map_values(currentValuesMap))

\* StoreImpl.delete(item | items)
delete(s, item) ==
    Bind(SignalGet(deletePersisted(s, item.v), "items"),
         LAMBDA r : value_set(r.s,
                              SelectSeq(r.v.v,
                                        LAMBDA currentItem :
                                            \A i \in 1..Len(item.v) :
                                                toString(item.v[i].id) # toString(currentItem.id))))

\* StoreImpl.clear()
clear(s) == value_set([s EXCEPT !.storage.data = NothingPersisted], <<>>)

----------------------------------------------------------------------------
(* The reactive proxy: the set trap.                                       *)

\* createHandler().set for the property p of a plain object: the state of
\* the property, when there is one, is set to createProxy(value); then
\* target[key] = value.
handler_set(s, v) ==
    [(IF s.proxy.has THEN signal_set(s, "p", createProxy(v)) ELSE s)
        EXCEPT !.proxy.target = v]

----------------------------------------------------------------------------
(* NodesOf("effect") of the make variant: Watch, testingEffect, flushEffects.        *)

\* Watch.run: clear dirty; after the first run, skip when no producer changed.
WatchRun(s, w) ==
    Bind(IF s.trackingVersion[w] # 0
         THEN consumerPollValueStatus([s EXCEPT !.dirty[w] = FALSE], w, 1)
         ELSE Ret([s EXCEPT !.dirty[w] = FALSE], TRUE),
         LAMBDA poll :
             IF poll.s.exc \/ poll.v = FALSE
             THEN poll.s
             ELSE Bind(Eval([poll.s EXCEPT !.activeConsumer = w,
                                           !.trackingVersion[w] = @ + 1],
                            Expr(w)),
                       LAMBDA r :
                           [r.s EXCEPT !.activeConsumer = poll.s.activeConsumer,
                                       !.runs[w] = @ + 1,
                                       !.seen[w] = r.v]))

\* testingEffect: new Watch(effectFn, queue.add.bind(queue)); watch.notify()
testingEffect(s, e) == notify([s EXCEPT !.status[e] = "live"], e)

RECURSIVE flushEffects(_)
\* flushEffects: take the watches out of the queue in order and run each,
\* those added meanwhile included; a run that throws ends the loop.
flushEffects(s) ==
    IF s.queue = <<>> \/ s.exc THEN s
    ELSE flushEffects(WatchRun([s EXCEPT !.queue = Tail(@)], Head(s.queue)))

\* The effects that a write to a ref triggered run, in order, before the
\* assignment returns; when one of them throws the others do not run.
triggerEffects(s) ==
    IF impl = "vue" THEN [flushEffects(s) EXCEPT !.queue = <<>>] ELSE s

----------------------------------------------------------------------------
(* NodesOf("effect") of index.ts and binding.ts: a Signal.Computed under the Watcher. *)

\* Watcher.watch(...signals): clear the Watcher's dirty flag, start watching the signals.
WatcherWatch(s, signals) ==
    [s EXCEPT
        !.dirty[W] = FALSE,
        !.producers[W] =
            @ \o [i \in 1..Len(signals) |->
                     [p |-> signals[i], at |-> s.trackingVersion[W],
                      seen |-> s.valueVersion[signals[i]]]]]

\* Watcher.unwatch(signal)
WatcherUnwatch(s, p) ==
    IF HasEdge(s, W, p)
    THEN [s EXCEPT !.producers[W] = RemoveAt(@, EdgeIndex(@, p))]
    ELSE s

\* Watcher.getPending(): the watched computeds that are dirty.
WatcherGetPending(s) ==
    SelectSeq([i \in 1..Len(s.producers[W]) |-> s.producers[W][i].p],
              LAMBDA p : s.stale[p])

\* effect without computed.get(): watched, never run.
effectNoRun(s, e) == WatcherWatch([s EXCEPT !.status[e] = "live"], <<e>>)

\* dispose that unwatches a clean effect only: a dirty one stays pending.
disposeUnlessDirty(s, e) ==
    IF s.stale[e]
    THEN [s EXCEPT !.status[e] = "disposed"]
    ELSE WatcherUnwatch([s EXCEPT !.status[e] = "disposed"], e)

\* dispose that leaves the computed under the Watcher.
disposeKeepsWatching(s, e) == [s EXCEPT !.status[e] = "disposed"]

\* effect(onChange) / watch(onChange): watch the new computed, then read it once.
effect(s, e) ==
    ComputedGet(WatcherWatch([s EXCEPT !.status[e] = "live"], <<e>>), e).s

\* The deferred cleanup of effect(), unwatch() of watch(): watcher.unwatch(computed)
dispose(s, e) == WatcherUnwatch([s EXCEPT !.status[e] = "disposed"], e)

\* The body of async *[Symbol.asyncIterator]() from the first next() to the first
\* await: the promises array with one promise, the effect (which runs once at
\* once), its handle stored in this.disposable / this.#ref over whatever was
\* there, and the loop waiting for promises[0].
asyncIterator(s, i) ==
    Bind(effect([s EXCEPT !.sub.its[i].promises = <<Promise("pending", UNSET)>>], ItEffect(i)),
         LAMBDA s1 :
             IF s1.exc THEN [s1 EXCEPT !.sub.its[i].phase = "done"]
             ELSE [s1 EXCEPT !.sub.ref = ItEffect(i),
                             !.sub.its[i].pos = 1,
                             !.sub.its[i].phase = "awaiting"])

\* The continuation of await promise: delete promises[promises.indexOf(promise)]
\* and yield value.
generatorResume(s, i) ==
    LET it == s.sub.its[i]
    IN [s EXCEPT !.sub.its[i].yielded = Append(@, it.promises[it.pos].v),
                 !.sub.its[i].promises[it.pos] = Promise("hole", UNSET),
                 !.sub.its[i].phase = "yielded"]

\* next() after a yield: for (let promise of promises) moves to the next index
\* and awaits that promise; the generator returns when the array has no more.
generatorNext(s, i) ==
    LET it == s.sub.its[i]
    IN IF it.pos < Len(it.promises)
       THEN [s EXCEPT !.sub.its[i].pos = it.pos + 1, !.sub.its[i].phase = "awaiting"]
       ELSE [s EXCEPT !.sub.its[i].phase = "done"]

\* [Symbol.dispose](): this.disposable?.[Symbol.dispose]?.() / this.#ref?.unwatch()
subscriptionDispose(s) ==
    IF s.sub.ref = NoConsumer
    THEN [s EXCEPT !.sub.disposed = TRUE]
    ELSE dispose([s EXCEPT !.sub.disposed = TRUE], s.sub.ref)

----------------------------------------------------------------------------
(* The Lit integration: the SignalTracker mixin and the track directive, on  *)
(* the core they are built against: index.ts (effect returns a              *)
(* DisposableStack) or the @vue/reactivity one (effect returns an EffectRef). *)

\* What watchEffect(effectFunc) of @vue/reactivity returns, kept in the variable
\* unwatch: the runner of the effect.  Calling it runs the effect function
\* again, tracked; it does not stop the effect.
unwatch(s, e) ==
    Bind(Eval([s EXCEPT !.activeConsumer = e, !.trackingVersion[e] = @ + 1], Expr(e)),
         LAMBDA r : [r.s EXCEPT !.activeConsumer = s.activeConsumer,
                                !.runs[e] = @ + 1,
                                !.seen[e] = r.v])

\* effect(effectFunc) of the @vue/reactivity core: the function runs once at once.
watchEffect(s, e) == unwatch([s EXCEPT !.status[e] = "live"], e)

\* EffectRef.destroy() { unwatch(); }
destroy(s, e) == unwatch(s, e)

\* effect(...) and the disposal of its handle, on the core at hand.
createEffect(s, e) == IF impl = "vue" THEN watchEffect(s, e) ELSE effect(s, e)
disposeHandle(s, e) == IF impl = "vue" THEN destroy(s, e) ELSE dispose(s, e)

\* signal.set(value) of the core resource() is built on, with the effects it triggers.
assign(s, n, v) == triggerEffects(Set(s, n, v))

\* resource(): load(refetching = true).  The body runs only when refetching
\* is false: const p = fetcher(key()); promise = p; state.set(resolved ?
\* 'refreshing' : 'pending').
load(s, refetching) == Eval(s, Un("load", refetching))

\* Statements x.set(v) in a row: what an effect throws during one of them
\* ends the sequence there.
RECURSIVE assignEach(_, _)
assignEach(s, sets) ==
    IF sets = <<>> \/ s.exc THEN s
    ELSE assignEach(assign(s, Head(sets).n, Head(sets).v), Tail(sets))

\* resource(): completeLoad(v, err): if (err === undefined) value.set(v);
\* state.set(...); error.set(err).
completeLoad(s, v, err) ==
    assignEach(s, (IF err = UNDEFINED THEN <<[n |-> "value", v |-> v]>> ELSE <<>>)
                      \o <<[n |-> "state", v |-> IF err # UNDEFINED THEN St.errored ELSE St.ready],
                           [n |-> "error", v |-> err]>>)

\* A test that takes every promise for the current one.
isAnyPromise(s, p) == TRUE

\* promise === p
isCurrentPromise(s, p) == s.res.promise = p

\* resource(): loadEnd(p, v, error): only the current promise counts.
loadEnd(s, p, v, err) ==
    IF isCurrentPromise(s, p)
    THEN completeLoad([s EXCEPT !.res.promise = 0, !.res.resolved = TRUE], v, err)
    ELSE s

\* resource(key, fetcher): the signals and computeds of the closure, and
\* effect(() => { load(false) }), which starts the first load at once.
resource(s) == createEffect([s EXCEPT !.res.created = TRUE], "loader")

\* The effect object that the next call of effect() creates.
NextFree(s, es) ==
    IF \E i \in 1..Len(es) : s.status[es[i]] = "none"
    THEN es[CHOOSE i \in 1..Len(es) :
                /\ s.status[es[i]] = "none"
                /\ \A j \in 1..(i - 1) : s.status[es[j]] # "none"]
    ELSE NoConsumer

\* TrackDirective.render with a tracked read of the signal.
renderTracked(s, n) == Eval(s, Rd(n))

\* TrackDirective.render(signal): on the first render create the effect, whose
\* function does nothing while updateFromLit is true; return the value read
\* inside untrack.
TrackDirective_render(s, n) ==
    Bind(IF s.lit.tracked THEN s
         ELSE Bind(createEffect(
                       [(IF s.lit.ref = NoConsumer THEN s ELSE disposeHandle(s, s.lit.ref))
                           EXCEPT !.lit.tracked = TRUE,
                                  !.lit.dirConnected = s.lit.connected,
                                  !.lit.updateFromLit = @ \cup {"dir"}],
                       "dir"),
                   LAMBDA s1 : [s1 EXCEPT !.lit.ref = "dir",
                                          !.lit.updateFromLit = @ \ {"dir"}]),
         LAMBDA s2 : Untrack(s2, Rd(n)))

\* TrackDirective.disconnected(): this.#ref?.destroy()
TrackDirective_disconnected(s) ==
    IF s.lit.ref = NoConsumer THEN s ELSE disposeHandle(s, s.lit.ref)

\* TrackDirective.reconnected(): this.#ref = effect(() => this.setValue(this.#signal?.value))
TrackDirective_reconnected(s) ==
    Bind(NextFree(s, ReconnectEffects), LAMBDA e :
        [createEffect(s, e) EXCEPT !.lit.ref = e])

\* LitElement.performUpdate(): nothing unless an update is pending; render(),
\* commit what it returned to the part, the update is no longer pending.
superPerformUpdate(s) ==
    IF ~s.lit.isUpdatePending THEN s
    ELSE Bind(Eval([s EXCEPT !.lit.renderCount = @ + 1],
                   IF sc = "tracker" THEN Rd("countPlusOne") ELSE At("track", "count")),
              LAMBDA r : [r.s EXCEPT !.lit.text = r.v, !.lit.isUpdatePending = FALSE])

\* SignalTracker.performUpdate(): dispose the previous effect, run the update
\* inside a new one.
SignalTracker_performUpdate(s) ==
    IF ~s.lit.isUpdatePending THEN s
    ELSE Bind(IF s.lit.cleanup = NoConsumer THEN s ELSE disposeHandle(s, s.lit.cleanup),
              LAMBDA s1 :
                  Bind(NextFree(s1, HostEffects), LAMBDA h :
                      [createEffect([s1 EXCEPT !.lit.updateFromLit = @ \cup {h}], h)
                          EXCEPT !.lit.cleanup = h]))

performUpdate(s) ==
    IF UsesTracker THEN SignalTracker_performUpdate(s) ELSE superPerformUpdate(s)

\* LitElement.connectedCallback(): the element is connected, updates are
\* enabled, and a directive that was rendered and is disconnected reconnects.
LitElement_connectedCallback(s) ==
    Bind([s EXCEPT !.lit.connected = TRUE, !.lit.enabled = TRUE, !.lit.connects = @ + 1],
         LAMBDA s1 :
             IF s1.lit.tracked /\ ~s1.lit.dirConnected
             THEN TrackDirective_reconnected([s1 EXCEPT !.lit.dirConnected = TRUE])
             ELSE s1)

\* SignalTracker.connectedCallback(): super.connectedCallback(); this.requestUpdate()
connectedCallback(s) ==
    IF UsesTracker
    THEN requestUpdate(LitElement_connectedCallback(s))
    ELSE LitElement_connectedCallback(s)

\* LitElement.disconnectedCallback(): the element and its directives disconnect.
LitElement_disconnectedCallback(s) ==
    Bind([s EXCEPT !.lit.connected = FALSE], LAMBDA s1 :
        IF s1.lit.tracked /\ s1.lit.dirConnected
        THEN TrackDirective_disconnected([s1 EXCEPT !.lit.dirConnected = FALSE])
        ELSE s1)

\* SignalTracker.disconnectedCallback(): super.disconnectedCallback(); this.#cleanup?.dispose()
disconnectedCallback(s) ==
    IF UsesTracker
    THEN Bind(LitElement_disconnectedCallback(s), LAMBDA s1 :
             IF s1.lit.cleanup = NoConsumer THEN s1 ELSE disposeHandle(s1, s1.lit.cleanup))
    ELSE LitElement_disconnectedCallback(s)

RECURSIVE GetEach(_, _)
\* for (const signal of pending) signal.get(): a get() that throws ends the loop.
GetEach(s, ps) ==
    IF ps = <<>> \/ s.exc THEN s ELSE GetEach(ComputedGet(s, Head(ps)).s, Tail(ps))

\* processPendingEffects; watcher.watch() is not reached when a get() threw.
processPendingEffects(s) ==
    Bind(GetEach([s EXCEPT !.needsEnqueue = TRUE],
                 WatcherGetPending([s EXCEPT !.needsEnqueue = TRUE])),
         LAMBDA s1 : IF s1.exc THEN s1 ELSE WatcherWatch(s1, <<>>))

RECURSIVE RunMicrotasks(_)
\* The microtask checkpoint at the end of a synchronous turn.
RunMicrotasks(s) ==
    IF s.microtasks = <<>> THEN s
    ELSE RunMicrotasks(processPendingEffects([s EXCEPT !.microtasks = Tail(@),
                                                       !.exc = FALSE]))

----------------------------------------------------------------------------
(* The state machine: one action per user operation.                       *)

Dom == DOMAIN prog \cup {W}

Init ==
    /\ sc \in
         {"diamond", "cond", "untrack", "object", "even", "switch", "chain", "throw", "catch",
          "bump", "peek", "cycle", "changes", "track", "tracker", "both", "equal",
          "resource", "store", "proxy"}
    /\ impl \in {"make", "index", "binding", "vue"}
    /\ impl = "vue" => sc \in {"catch", "bump", "resource", "store"} \cup LitScenarios
    /\ sc \in {"resource", "store"} => impl = "vue"
    /\ sc = "proxy" => impl = "index"
    /\ sc \in LitScenarios => impl \in {"index", "vue"}
    /\ sc \in {"peek", "equal"} => impl = "make"
    /\ sc = "changes" => impl \in {"index", "binding"}
    /\ prog = Prog(sc)
    /\ value = [n \in Dom |-> IF n = W THEN UNSET ELSE prog[n].init]
    /\ valueVersion = [n \in Dom |-> 0]
    /\ stale = [n \in Dom |-> TRUE]
    /\ trackingVersion = [n \in Dom |-> 0]
    /\ producers = [n \in Dom |-> <<>>]
    /\ dirty = [n \in Dom |-> FALSE]
    /\ queue = <<>>
    /\ needsEnqueue = FALSE
    /\ microtasks = <<>>
    /\ heap = [o \in {1, 2} |-> 0]
    /\ activeConsumer = NoConsumer
    /\ status = [n \in Dom |-> "none"]
    /\ runs = [n \in Dom |-> 0]
    /\ seen = [n \in Dom |-> UNSET]
    /\ sub = [ref |-> NoConsumer, disposed |-> FALSE,
              its |-> [i \in Iterations |->
                          [phase |-> "idle", promises |-> <<>>, pos |-> 0,
                           yielded |-> <<>>, emitted |-> <<>>]]]
    /\ lit = [connected |-> FALSE, enabled |-> FALSE, isUpdatePending |-> TRUE,
              connects |-> 0, renderCount |-> 0, text |-> UNSET,
              cleanup |-> NoConsumer, updateFromLit |-> {},
              tracked |-> FALSE, ref |-> NoConsumer, dirConnected |-> FALSE]
    /\ res = [created |-> FALSE, resolved |-> FALSE, promise |-> 0, fetches |-> <<>>,
              log |-> <<>>]
    /\ storage \in {[created |-> FALSE, initial |-> FALSE, data |-> d] :
                        d \in IF sc = "store"
                              THEN {NothingPersisted,
                                    [NothingPersisted EXCEPT ![1] = Item(Id("num", 1), 0)]}
                              ELSE {NothingPersisted}}
    /\ proxy = [target |-> Prim(0), has |-> FALSE]
    /\ writes = 0
    /\ computedSince = {}
    /\ lastOp = [op |-> "init", n |-> NoConsumer, v |-> UNSET]

Commit(s) ==
    /\ value' = s.value
    /\ valueVersion' = s.valueVersion
    /\ stale' = s.stale
    /\ trackingVersion' = s.trackingVersion
    /\ producers' = s.producers
    /\ dirty' = s.dirty
    /\ queue' = s.queue
    /\ needsEnqueue' = s.needsEnqueue
    /\ microtasks' = s.microtasks
    /\ heap' = s.heap
    /\ activeConsumer' = s.activeConsumer
    /\ status' = s.status
    /\ runs' = s.runs
    /\ seen' = s.seen
    /\ sub' = s.sub
    /\ lit' = s.lit
    /\ res' = s.res
    /\ storage' = s.storage
    /\ proxy' = s.proxy
    /\ UNCHANGED <<sc, impl, prog>>

\* The memos that ran in this step join computedSince.
NoWrite ==
    /\ UNCHANGED writes
    /\ computedSince' = computedSince \cup {m \in NodesOf("memo") : runs'[m] > runs[m]}

\* A write starts a new period: only the memos that ran in this step, after the
\* write, have run since it.
Wrote ==
    /\ writes' = writes + 1
    /\ computedSince' = {m \in NodesOf("memo") : runs'[m] > runs[m]}

\* signal.set(v).  The key of a resource is written once resource() was
\* called, and with a new value: each such write is a call of the fetcher.
SetOp ==
    \E n \in NodesOf("signal") : \E v \in prog[n].dom :
        /\ writes < MaxWrites
        /\ sc = "resource" =>
               (res.created /\ Len(res.fetches) < MaxFetches /\ v # value[n])
        /\ Commit(triggerEffects(Set(Store, n, v)))
        /\ Wrote
        /\ lastOp' = [op |-> "set", n |-> n, v |-> v]

\* signal.update(v => v + 1), on the signals that hold a bit or an object
UpdateOp ==
    \E n \in NodesOf("signal") :
        /\ writes < MaxWrites
        /\ prog[n].dom # Names
        /\ sc \notin {"resource", "store", "proxy"}
        /\ Commit(triggerEffects(Update(Store, n)))
        /\ Wrote
        /\ lastOp' = [op |-> "update", n |-> n, v |-> updater(value[n])]

\* signal.mutate(list => list.push(...)) on the signal that holds objects,
\* where the variant defines mutate
MutateOp ==
    \E n \in NodesOf("signal") :
        /\ writes < MaxWrites
        /\ impl \in {"make", "binding"}
        /\ Obj(1) \in prog[n].dom
        /\ Commit(Mutate(Store, n))
        /\ Wrote
        /\ lastOp' = [op |-> "mutate", n |-> n, v |-> value[n]]

\* signal.peek() outside any consumer, in the program that uses peek
PeekOp ==
    \E n \in NodesOf("signal") :
        /\ sc = "peek"
        /\ \E r \in {peek(Store, n)} :
              /\ Commit(r.s)
              /\ lastOp' = [op |-> "peek", n |-> n, v |-> r.v]
        /\ NoWrite

\* A read of a memo outside any consumer, as in expect(full()); of the
\* computeds of a resource the program reads user() and user.loading().
ReadOp ==
    \E n \in NodesOf("memo") :
        /\ \A m \in NodesOf("memo") : runs[m] < MaxRuns
        /\ sc \notin LitScenarios \cup {"changes"}
        /\ sc = "resource" => (res.created /\ n \in {"read", "loading"})
        /\ sc = "store" => storage.created
        /\ \E r \in {memo(Store, n)} :
              /\ Commit(r.s)
              /\ lastOp' = [op |-> "read", n |-> n, v |-> r.v]
        /\ NoWrite

\* The same read inside untrack, as in expect(untrack(() => double())).
UntrackedReadOp ==
    \E n \in NodesOf("memo") :
        /\ \A m \in NodesOf("memo") : runs[m] < MaxRuns
        /\ sc \notin LitScenarios \cup {"changes", "resource", "store", "proxy"}
        /\ \E r \in {Untrack(Store, Rd(n))} :
              /\ Commit(r.s)
              /\ lastOp' = [op |-> "untracked", n |-> n, v |-> r.v]
        /\ NoWrite

\* effect(fn) / watch(fn) / testingEffect(fn)
CreateEffect ==
    \E e \in NodesOf("effect") :
        /\ status[e] = "none"
        /\ sc \notin LitScenarios \cup {"changes", "resource"}
        /\ Commit(IF impl = "make" THEN testingEffect(Store, e) ELSE effect(Store, e))
        /\ lastOp' = [op |-> "effect", n |-> e, v |-> UNSET]
        /\ NoWrite

\* cleanup.dispose() / ref.unwatch(); the test helper returns no handle.
DisposeEffect ==
    \E e \in NodesOf("effect") :
        /\ status[e] = "live"
        /\ impl # "make"
        /\ sc \notin LitScenarios \cup {"changes", "resource"}
        /\ Commit(dispose(Store, e))
        /\ lastOp' = [op |-> "dispose", n |-> e, v |-> UNSET]
        /\ NoWrite

\* iterator.next(): the first call starts the generator, a later one resumes it
\* after the value it yielded.
IterNext ==
    \E i \in Iterations :
        /\ sc = "changes"
        /\ sub.its[i].phase \in {"idle", "yielded"}
        /\ Commit(IF sub.its[i].phase = "idle"
                  THEN asyncIterator(Store, i)
                  ELSE generatorNext(Store, i))
        /\ lastOp' = [op |-> "next", n |-> ItEffect(i), v |-> UNSET]
        /\ NoWrite

\* The promise the generator awaits is resolved: the generator yields its value
\* to the consumer.
IterResume ==
    \E i \in Iterations :
        /\ sc = "changes"
        /\ sub.its[i].phase = "awaiting"
        /\ sub.its[i].promises[sub.its[i].pos].st = "resolved"
        /\ Commit(generatorResume(Store, i))
        /\ lastOp' = [op |-> "yield", n |-> ItEffect(i),
                      v |-> sub.its[i].promises[sub.its[i].pos].v]
        /\ NoWrite

\* sub[Symbol.dispose]()
SubDispose ==
    /\ sc = "changes"
    /\ Commit(subscriptionDispose(Store))
    /\ lastOp' = [op |-> "unsubscribe", n |-> sub.ref, v |-> UNSET]
    /\ NoWrite

\* container.append(el)
Connect ==
    /\ sc \in LitScenarios
    /\ ~lit.connected
    /\ lit.connects < MaxConnects
    /\ (lit.tracked /\ ~lit.dirConnected) => NextFree(Store, ReconnectEffects) # NoConsumer
    /\ Commit(connectedCallback(Store))
    /\ lastOp' = [op |-> "connect", n |-> NoConsumer, v |-> UNSET]
    /\ NoWrite

\* el.remove()
Disconnect ==
    /\ sc \in LitScenarios
    /\ lit.connected
    /\ Commit(disconnectedCallback(Store))
    /\ lastOp' = [op |-> "disconnect", n |-> NoConsumer, v |-> UNSET]
    /\ NoWrite

\* The update that requestUpdate() scheduled: performUpdate()
PerformUpdate ==
    /\ sc \in LitScenarios
    /\ lit.enabled
    /\ lit.isUpdatePending
    /\ UsesTracker => NextFree(Store, HostEffects) # NoConsumer
    /\ Commit(performUpdate(Store))
    /\ lastOp' = [op |-> "render", n |-> NoConsumer, v |-> UNSET]
    /\ NoWrite

\* const user = resource(key, fetcher)
ResourceOp ==
    /\ sc = "resource"
    /\ ~res.created
    /\ Commit(resource(Store))
    /\ lastOp' = [op |-> "resource", n |-> NoConsumer, v |-> UNSET]
    /\ NoWrite

\* effect(...) over the resource: the program creates one of its two observers
Subscribe ==
    /\ sc = "resource"
    /\ res.created
    /\ status["obs"] = "none" /\ status["strict"] = "none"
    /\ \E e \in {"obs", "strict"} :
          /\ Commit(createEffect(Store, e))
          /\ lastOp' = [op |-> "subscribe", n |-> e, v |-> UNSET]
    /\ NoWrite

\* A promise that the fetcher returned settles: the callbacks that load
\* handed to then() run, loadEnd(p, v, undefined) or loadEnd(p, undefined, castError(e)).
Settle ==
    \E i \in 1..Len(res.fetches) : \E ok \in BOOLEAN :
        /\ res.fetches[i].st = "pending"
        /\ Commit(loadEnd([Store EXCEPT !.res.fetches[i].st =
                                            IF ok THEN "fulfilled" ELSE "rejected"],
                          i,
                          IF ok THEN Fetched(i) ELSE UNDEFINED,
                          IF ok THEN UNDEFINED ELSE Failure(i)))
        /\ lastOp' = [op |-> "settle", n |-> NoConsumer,
                      v |-> IF ok THEN Fetched(i) ELSE Failure(i)]
        /\ Wrote

\* user.refetch() and user.refetch(key)
Refetch ==
    /\ sc = "resource"
    /\ res.created
    /\ \E a \in {[k |-> "bool", v |-> 1]} \cup Bits : \E r \in {load(Store, a)} :
          /\ Commit(r.s)
          /\ lastOp' = [op |-> "refetch", n |-> NoConsumer, v |-> r.v]
    /\ NoWrite

\* What add and delete are called with: one item, or an array of items.
Arguments ==
    {[k |-> "item", v |-> <<i>>] : i \in Items}
        \cup {[k |-> "array", v |-> q] : q \in UNION {[1..n -> Items] : n \in 1..MaxArray}}

\* const todos = store({ key, provider, initialValue }): the initialValue
\* option is absent, or an array of items with distinct ids.
StoreOp ==
    /\ sc = "store"
    /\ ~storage.created
    /\ \E initialValue \in
              {UNDEFINED, ListOf(<<Item(Id("str", 1), 0)>>),
               ListOf(<<Item(Id("num", 1), 0), Item(Id("num", 2), 0)>>)} :
          /\ Commit(StoreImpl(Store, initialValue))
          /\ lastOp' = [op |-> "store", n |-> NoConsumer, v |-> initialValue]
    /\ NoWrite

\* todos.add(item) / todos.add([item, ...])
AddOp ==
    /\ sc = "store"
    /\ storage.created
    /\ writes < MaxWrites
    /\ \E item \in Arguments :
          /\ Commit(add(Store, item))
          /\ lastOp' = [op |-> "add", n |-> NoConsumer, v |-> item]
    /\ Wrote

\* todos.delete(item) / todos.delete([item, ...])
DeleteOp ==
    /\ sc = "store"
    /\ storage.created
    /\ writes < MaxWrites
    /\ \E item \in Arguments :
          /\ Commit(delete(Store, item))
          /\ lastOp' = [op |-> "delete", n |-> NoConsumer, v |-> item]
    /\ Wrote

\* todos.clear()
ClearOp ==
    /\ sc = "store"
    /\ storage.created
    /\ writes < MaxWrites
    /\ Commit(clear(Store))
    /\ lastOp' = [op |-> "clear", n |-> NoConsumer, v |-> UNSET]
    /\ Wrote

\* o.p = v, with the values the program writes to the property: primitives
\* and the object { value: 1 }.
ProxySet ==
    /\ sc = "proxy"
    /\ writes < MaxWrites
    /\ \E v \in Bits \cup {[k |-> "box", v |-> 1]} :
          /\ Commit(handler_set(Store, v))
          /\ lastOp' = [op |-> "proxySet", n |-> NoConsumer, v |-> v]
    /\ Wrote

\* o.p read outside any computed
ProxyGet ==
    /\ sc = "proxy"
    /\ \E r \in {handler_get(Store)} :
          /\ Commit(r.s)
          /\ lastOp' = [op |-> "get", n |-> NoConsumer, v |-> r.v]
    /\ NoWrite

\* flushEffects() of the test helper
FlushEffects ==
    /\ impl = "make"
    /\ Commit(flushEffects(Store))
    /\ lastOp' = [op |-> "flush", n |-> NoConsumer, v |-> UNSET]
    /\ NoWrite

\* The synchronous turn ends: the queued microtasks run.
EndOfTurn ==
    /\ impl # "make"
    /\ Commit(RunMicrotasks(Store))
    /\ lastOp' = [op |-> "turn", n |-> NoConsumer, v |-> UNSET]
    /\ NoWrite

Next ==
    \/ SetOp
    \/ UpdateOp
    \/ MutateOp
    \/ PeekOp
    \/ ReadOp
    \/ UntrackedReadOp
    \/ CreateEffect
    \/ DisposeEffect
    \/ IterNext
    \/ IterResume
    \/ SubDispose
    \/ Connect
    \/ Disconnect
    \/ PerformUpdate
    \/ ResourceOp
    \/ Subscribe
    \/ Settle
    \/ Refetch
    \/ StoreOp
    \/ AddOp
    \/ DeleteOp
    \/ ClearOp
    \/ ProxySet
    \/ ProxyGet
    \/ FlushEffects
    \/ EndOfTurn

Spec == Init /\ [][Next]_vars

----------------------------------------------------------------------------
(* Properties.                                                              *)

IsWrite(o) == o.op \in {"set", "update", "mutate"}

\* Consumer c read producer p in its latest run.
ReadsCurrently(c, p) ==
    \E i \in 1..Len(producers[c]) :
        producers[c][i].p = p /\ producers[c][i].at = trackingVersion[c]

\* C1: in the diamond name -> {first, last} -> full, a read of full whose cached
\* value predates a change of name runs full's computation exactly once, and
\* returns the value built from the current name on both branches.
C1_DiamondGlitchFree ==
    [][(/\ sc = "diamond"
        /\ lastOp'.op = "read" /\ lastOp'.n = "full"
        /\ value["full"] \notin {UNSET, value["name"]})
       => /\ runs'["full"] = runs["full"] + 1
          /\ lastOp'.v = Prim(10 * (value["name"].v \div 10) + (value["name"].v % 10))
          /\ value'["first"] = Prim(value["name"].v \div 10)
          /\ value'["last"] = Prim(value["name"].v % 10)]_vars

\* C1 happens: full has been read again after name went from 11 to 22.
C1_Witness ==
    /\ sc = "diamond"
    /\ lastOp = [op |-> "read", n |-> "full", v |-> Prim(22)]
    /\ runs["full"] = 2

\* C2: a write that changes a signal a live effect read lets the effect run
\* again: as long as the effect is dirty, the drain that will run it is
\* scheduled (the effect is in the test helper's queue, or
\* processPendingEffects is among the queued microtasks).
C2_DirtyEffectHasDrainScheduled ==
    \A e \in NodesOf("effect") :
        status[e] = "live" =>
            IF impl = "make"
            THEN dirty[e] => \E i \in 1..Len(queue) : queue[i] = e
            ELSE stale[e] => microtasks # <<>>

\* C3: no step runs a memo's computation twice, except that the step in which
\* a promise of a resource settles, where completeLoad sets value, state and
\* error one after the other, runs it at most once for each of these signals
\* it changes; a memo that ran since the latest write and holds the value it
\* computed does not run again before the next write, and a memo without
\* dependencies runs once over any number of reads and writes.
C3_MemoRunsAtMostOncePerChange ==
    [][\A m \in NodesOf("memo") :
          /\ runs'[m] <= runs[m]
                + (IF lastOp'.op = "settle"
                   THEN Cardinality({n \in {"value", "state", "error"} : value'[n] # value[n]})
                   ELSE 1)
          /\ (m \in computedSince /\ value[m] # UNSET /\ writes' = writes)
                => runs'[m] = runs[m]
          /\ Expr(m).op = "const" =>
                /\ runs'[m] <= 1
                /\ (lastOp'.op = "read" /\ lastOp'.n = m) =>
                       (runs'[m] = 1 /\ lastOp'.v = Expr(m).v)]_vars

\* C3 happens: after the last write, double and tick have run and tick is read.
C3_Witness ==
    /\ sc = "untrack"
    /\ writes = MaxWrites
    /\ computedSince = {"double", "tick"}
    /\ lastOp.op = "read" /\ lastOp.n = "tick"
    /\ runs["tick"] = 1 /\ runs["double"] >= 2

\* C4: set(v) on a signal that holds the identical primitive v changes
\* neither the value nor valueVersion, notifies and schedules nothing, and
\* leaves every dependent as it was (so its next read does not recompute).
C4_EqualSetIsNoOp ==
    [][(/\ lastOp'.op = "set"
        /\ value[lastOp'.n].k = "prim"
        /\ lastOp'.v = value[lastOp'.n])
       => UNCHANGED <<value, valueVersion, stale, dirty, queue, microtasks, producers,
                      trackingVersion, runs, seen, heap>>]_vars

\* C4 happens: countA was set to the 0 it holds after the effect read it.
C4_Witness ==
    /\ sc = "cond"
    /\ lastOp = [op |-> "set", n |-> "countA", v |-> Prim(0)]
    /\ valueVersion["countA"] = 0
    /\ status["eff"] = "live" /\ runs["eff"] = 1 /\ ~dirty["eff"] /\ ~stale["eff"]

\* C5: with the default equality, set(v) with an object v is a change also
\* when v is the reference the signal holds: valueVersion goes up and the
\* computeds that read the signal become stale.
C5_ObjectSetIsAlwaysAChange ==
    [][(lastOp'.op = "set" /\ lastOp'.v.k = "obj")
       => /\ valueVersion'[lastOp'.n] = valueVersion[lastOp'.n] + 1
          /\ \A c \in NodesOf("memo") : ReadsCurrently(c, lastOp'.n) => stale'[c]]_vars

\* C6: the effect reading useCountA() ? countA() : countB() is not scheduled
\* by a write to a signal its latest run did not read, and once nothing is
\* scheduled it has seen the current value of the branch now taken.
C6_CondEffectFollowsTakenBranch ==
    [][(sc = "cond" /\ status'["eff"] = "live")
       => /\ (queue' = <<>> /\ microtasks' = <<>>) =>
                seen'["eff"] = IF Truthy(value'["useCountA"])
                               THEN value'["countA"] ELSE value'["countB"]
          /\ (IsWrite(lastOp') /\ ~ReadsCurrently("eff", lastOp'.n)) =>
                UNCHANGED <<queue, microtasks, runs, dirty, stale>>]_vars

\* C7: a signal read only inside untrack is no dependency: no consumer holds
\* an edge to s, and a write to s notifies, schedules and runs nothing.
C7_UntrackedReadIsNoDependency ==
    [][sc = "untrack"
       => /\ \A c \in {"double", "eff"} :
                \A i \in 1..Len(producers'[c]) : producers'[c][i].p # "s"
          /\ (IsWrite(lastOp') /\ lastOp'.n = "s") =>
                UNCHANGED <<stale, dirty, queue, microtasks, runs, seen>>]_vars

\* C7 happens: s was set to 1 after double and the effect ran, and both stay clean.
C7_Witness ==
    /\ sc = "untrack"
    /\ lastOp = [op |-> "set", n |-> "s", v |-> Prim(1)]
    /\ value["double"] = Prim(0) /\ ~stale["double"]
    /\ status["eff"] = "live" /\ runs["eff"] = 1 /\ seen["eff"] = Prim(0)
    /\ queue = <<>>

\* C8: when effect(cb) / watch(cb) returns, cb has run exactly once, before
\* any write and without any drain, also when cb reads no signal; the effect
\* is clean unless cb threw.
C8_EffectRunsOnceAtCreation ==
    (impl # "make" /\ lastOp.op = "effect")
        => /\ runs[lastOp.n] = 1
           /\ seen[lastOp.n] # UNSET
           /\ seen[lastOp.n] # THROWN => ~stale[lastOp.n]

\* C8 happens: the effect that reads nothing was just created.
C8_Witness ==
    /\ impl = "index"
    /\ lastOp.op = "effect" /\ lastOp.n = "idle"
    /\ writes = 0
    /\ runs["idle"] = 1

C10_MutateAlwaysNotifies ==
    [][lastOp'.op = "mutate"
       => /\ valueVersion'[lastOp'.n] = valueVersion[lastOp'.n] + 1
          /\ \A c \in NodesOf("memo") : ReadsCurrently(c, lastOp'.n) => stale'[c]
          /\ \A e \in NodesOf("effect") :
                (IsWatch(e) /\ ReadsCurrently(e, lastOp'.n)) => dirty'[e]]_vars

\* C11: update(fn) is set(fn(current value)): the step leaves the signal
\* holding fn of the previous value, and the versions, the stale and dirty
\* flags and the queues are those the set would leave.
C11_UpdateIsSetOfFn ==
    [][lastOp'.op = "update"
       => \A r \in {Set(Store, lastOp'.n, updater(value[lastOp'.n]))} :
             /\ value'[lastOp'.n] = updater(value[lastOp'.n])
             /\ value' = r.value /\ valueVersion' = r.valueVersion
             /\ stale' = r.stale /\ dirty' = r.dirty
             /\ queue' = r.queue /\ microtasks' = r.microtasks]_vars

\* C12: when isEven recomputes to the value it had, the memo and the effect
\* that read that value in their latest run do not run; and once nothing is
\* scheduled the effect has seen the current parity of source (so a change of
\* parity did re-run it).
C12_EqualRecomputeStopsPropagation ==
    [][sc = "even"
       => /\ (/\ runs'["isEven"] > runs["isEven"]
              /\ value["isEven"] # UNSET
              /\ value'["isEven"] = value["isEven"])
             => \A c \in {"label", "eff"} :
                   (\E i \in 1..Len(producers[c]) :
                       /\ producers[c][i].p = "isEven"
                       /\ producers[c][i].at = trackingVersion[c]
                       /\ producers[c][i].seen = valueVersion["isEven"])
                      => runs'[c] = runs[c]
          /\ (status'["eff"] = "live" /\ queue' = <<>> /\ microtasks' = <<>>)
             => seen'["eff"] = Prim(IF value'["source"].v % 2 = 0 THEN 1 ELSE 0)]_vars

\* C13: every run of displayName leaves it with exactly the producers read in
\* that run as its dependencies; a write to a producer its latest run did not
\* read leaves it as it was, and a read then returns the cache without a run.
C13_RecomputeReplacesDependencies ==
    [][sc = "switch"
       => /\ runs'["displayName"] > runs["displayName"]
             => {producers'["displayName"][i].p :
                    i \in {j \in 1..Len(producers'["displayName"]) :
                              producers'["displayName"][j].at = trackingVersion'["displayName"]}}
                  = {"show"} \cup (IF Truthy(value'["show"]) THEN {"name"} ELSE {})
          /\ (IsWrite(lastOp') /\ ~ReadsCurrently("displayName", lastOp'.n))
             => (stale'["displayName"] = stale["displayName"]
                 /\ runs'["displayName"] = runs["displayName"])
          /\ (lastOp'.op = "read" /\ ~stale["displayName"])
             => (runs'["displayName"] = runs["displayName"]
                 /\ lastOp'.v = value["displayName"])]_vars

\* C13 happens: name was set to 1 after displayName ran with show off, and
\* displayName is still clean with the value of the other branch.
C13_Witness ==
    /\ sc = "switch"
    /\ lastOp = [op |-> "set", n |-> "name", v |-> Prim(1)]
    /\ value["show"] = Prim(0)
    /\ runs["displayName"] = 2
    /\ ~stale["displayName"]
    /\ value["displayName"] = Prim(7)

RECURSIVE Denote(_)
\* The values expression x can have over the current values of the signals:
\* what the callbacks compute, without the graph. A signal read inside untrack
\* is no dependency, so any value of the signal is allowed for it.
Denote(x) ==
    CASE x.op = "const" -> {x.v}
      [] x.op = "read" ->
           IF Kind(x.n) = "signal" THEN {value[x.n]} ELSE Denote(Expr(x.n))
      [] x.op = "if" ->
           UNION {IF c = THROWN THEN {THROWN}
                  ELSE Denote(IF Truthy(c) THEN x.t ELSE x.e) : c \in Denote(x.c)}
      [] x.op = "untrack" ->
           IF x.a.op = "read" /\ Kind(x.a.n) = "signal"
           THEN prog[x.a.n].dom
           ELSE Denote(x.a)
      [] x.op = "update" -> {UNDEFINED}
      [] x.op = "throw" -> {THROWN}
      [] x.op = "resRead" ->
           {IF value["error"] # UNDEFINED /\ res.promise = 0 THEN THROWN ELSE value["value"]}
      [] x.op = "get" -> {IF proxy.has THEN value["p"] ELSE proxy.target}
      [] x.op = "try" ->
           (Denote(x.a) \ {THROWN})
              \cup (IF THROWN \in Denote(x.a) THEN Denote(x.b) ELSE {})
      [] x.op = "pair" ->
           {IF l = THROWN \/ r = THROWN THEN THROWN ELSE Prim(10 * l.v + r.v) :
               l \in Denote(x.a), r \in Denote(x.b)}
      [] OTHER ->
           {IF a = THROWN THEN THROWN ELSE Apply1(x.op, a, Store) : a \in Denote(x.a)}

\* C14: what a read of a memo returns, tracked or inside untrack, is the
\* result of its function over the current values of the signals, through
\* the memos it reads (in the programs whose memos do not read themselves).
C14_ReadIsFresh ==
    (lastOp.op \in {"read", "untracked"} /\ sc # "cycle")
        => lastOp.v \in Denote(Rd(lastOp.n))

\* C15: however many writes come before the drain, at most one drain is
\* outstanding and no effect is queued twice; while a live effect is dirty
\* exactly one drain is scheduled for it; and a drain runs no effect twice
\* and leaves no live effect dirty.
C15_WritesCoalesceIntoOneDrain ==
    [][/\ Len(microtasks') <= 1
       /\ \A i, j \in 1..Len(queue') : queue'[i] = queue'[j] => i = j
       /\ \A e \in NodesOf("effect") :
             status'[e] = "live" =>
                IF impl = "make"
                THEN dirty'[e] => \E i \in 1..Len(queue') : queue'[i] = e
                ELSE stale'[e] => Len(microtasks') = 1
       /\ lastOp'.op \in {"flush", "turn"} =>
             \A e \in NodesOf("effect") :
                /\ runs'[e] <= runs[e] + 1
                /\ status'[e] = "live" =>
                      IF impl = "make" THEN ~dirty'[e] ELSE ~stale'[e]]_vars

\* The drain of the variant: flushEffects() or processPendingEffects().
Drain(s) == IF impl = "make" THEN flushEffects(s) ELSE processPendingEffects(s)

\* C16: when a drain returns, no effect is pending: the effects that became
\* dirty while it ran, made so by themselves or by another effect, have run
\* in it.
C16_DrainLeavesNothingPending ==
    \A r \in {Drain(Store)} :
        /\ r.queue = <<>>
        /\ WatcherGetPending(r) = <<>>
        /\ \A e \in NodesOf("effect") : IsWatch(e) => ~r.dirty[e]

\* The effects waiting for a drain in store s.
Pending(s) ==
    IF impl = "make"
    THEN {s.queue[i] : i \in 1..Len(s.queue)}
    ELSE {WatcherGetPending(s)[i] : i \in 1..Len(WatcherGetPending(s))}

\* C17: when an effect throws in a drain, the effects that were pending and
\* did not get their run in it are run by a later drain (they stay queued, or a
\* drain is scheduled), and the next write can schedule a drain again.
C17_ThrowingEffectIsIsolated ==
    \A r \in {Drain(Store)} :
        r.exc =>
           /\ \A e \in Pending(Store) :
                 r.runs[e] = runs[e] =>
                    IF impl = "make" THEN e \in Pending(r) ELSE r.microtasks # <<>>
           /\ impl # "make" =>
                 (r.microtasks # <<>> \/ (~r.dirty[W] /\ r.needsEnqueue))

\* C18: untrack restores the tracking context when its function throws: a
\* computed that catches the exception and then reads t has t as a dependency
\* of that run, so every read of the computed returns 10 + t.
C18_UntrackRestoresOnThrow ==
    (sc = "catch" /\ runs["guarded"] > 0)
    => /\ ReadsCurrently("guarded", "t")
       /\ lastOp.op \in {"read", "untracked"} => lastOp.v = Prim(10 + value["t"].v)

\* C20: an effect disposed while dirty is out of the pending set, and a drain
\* started from there neither runs its callback nor refreshes it.
C20_DisposeRemovesPendingEffect ==
    \A e \in NodesOf("effect") :
        (status[e] = "disposed" /\ stale[e])
        => /\ \A i \in 1..Len(WatcherGetPending(Store)) : WatcherGetPending(Store)[i] # e
           /\ \A r \in {processPendingEffects(Store)} :
                 r.runs[e] = runs[e] /\ r.seen[e] = seen[e] /\ r.stale[e]

\* C20 happens: the signal the effect read changed, and then the effect was
\* disposed, still dirty.
C20_Witness ==
    /\ sc = "even"
    /\ lastOp = [op |-> "dispose", n |-> "eff", v |-> UNSET]
    /\ stale["eff"]
    /\ value["source"] = Prim(4)
    /\ seen["eff"] = Prim(0)
    /\ status["eff"] = "disposed"

\* C30: update(fn) reads the current value without tracking: the computed that
\* called c.update(...) in its latest run does not have c as a dependency.
C30_UpdateReadsUntracked ==
    sc = "bump" => ~ReadsCurrently("bumper", "c")

\* C24: peek() returns the current value and changes nothing: not the value,
\* not valueVersion, no edge; and the effect that peeks at a and reads b has
\* seen the pair of their values and depends on b only.
C24_PeekReadsWithoutTracking ==
    [][/\ lastOp'.op = "peek"
          => /\ lastOp'.v = value[lastOp'.n]
             /\ value' = value /\ valueVersion' = valueVersion
             /\ producers' = producers
       /\ (sc = "peek" /\ runs'["spy"] > runs["spy"])
          => /\ seen'["spy"] = Prim(10 * value'["a"].v + value'["b"].v)
             /\ \A i \in 1..Len(producers'["spy"]) : producers'["spy"][i].p # "a"]_vars

\* C25: a read of a computed that reads itself, directly or through another
\* computed, fails with the cyclic-dependency error; afterwards no computed is
\* left in the middle of a computation, the tracking context is empty, and once
\* the cycle is switched off the reads return the value.
C25_CycleFailsFast ==
    sc = "cycle"
    => /\ lastOp.op \in {"read", "untracked"}
          => lastOp.v = (IF Truthy(value["on"]) THEN THROWN ELSE Prim(5))
       /\ \A n \in DOMAIN prog : value[n] # COMPUTING
       /\ activeConsumer = NoConsumer

\* C25 happens: pong was read while the cycle was on, the cycle was switched
\* off by the only write, and the second run of pong returned the value.
C25_Witness ==
    /\ sc = "cycle"
    /\ writes = 1
    /\ value["on"] = Prim(0)
    /\ runs["pong"] = 2
    /\ runs["self"] = 2
    /\ lastOp = [op |-> "read", n |-> "pong", v |-> Prim(5)]

\* C21: changes() yields the signal's value once per change, in order: what an
\* iteration has yielded is a prefix of what the runs of its effect resolved,
\* one value per run; and when a turn has ended, an iteration whose effect is
\* still watched has been handed the signal's current value.
C21_ChangesYieldsEveryChange ==
    sc = "changes"
    => \A i \in Iterations :
           LET it == sub.its[i]
           IN /\ Len(it.yielded) <= Len(it.emitted)
              /\ \A k \in 1..Len(it.yielded) : it.yielded[k] = it.emitted[k]
              /\ Len(it.emitted) = runs[ItEffect(i)]
              /\ (lastOp.op = "turn" /\ HasEdge(Store, W, ItEffect(i)))
                 => it.emitted[Len(it.emitted)] = value["src"]

\* C22: once the subscription has been disposed, no effect of any iteration
\* started on it, before or after the dispose, is watched.
C22_DisposeUnregistersEveryEffect ==
    (sc = "changes" /\ sub.disposed)
    => \A i \in Iterations : ~HasEdge(Store, W, ItEffect(i))

\* C23: after the subscription has been disposed and the turn has ended, no
\* iteration is left waiting for a promise that nothing will resolve: every
\* iteration that was started has finished.
C23_DisposeEndsTheIteration ==
    (sc = "changes" /\ sub.disposed /\ lastOp.op = "turn")
    => \A i \in Iterations :
           ~(/\ sub.its[i].phase = "awaiting"
             /\ sub.its[i].promises[sub.its[i].pos].st = "pending")

\* C26: while the track directive is connected, every change of the signal
\* reaches the part through setValue without a render of the host: when a
\* turn has ended the part shows the signal's current value and the host has
\* rendered once.
C26_TrackUpdatesPartWithoutRender ==
    (sc = "track" /\ lit.connected /\ lit.tracked /\ lit.dirConnected /\ lastOp.op = "turn")
    => (lit.text = value["count"] /\ lit.renderCount = 1)

\* C27: a disconnected SignalTracker element holds no live effect, and the
\* element never holds more than one.
C27_DisconnectedTrackerHoldsNoEffect ==
    sc = "tracker"
    => LET live == {i \in 1..Len(HostEffects) : status[HostEffects[i]] = "live"}
       IN /\ ~lit.connected => live = {}
          /\ Cardinality(live) <= 1

\* C28: while the directive is disconnected a write to the signal runs none of
\* its effects and leaves the part alone; reconnected() sets the part to the
\* signal's current value; and after a reconnect, when a turn has ended, the
\* part shows the current value again.
C28_TrackDisconnectAndReconnect ==
    [][sc = "track"
       => /\ (lit.tracked /\ ~lit.dirConnected /\ lastOp'.op \in {"set", "update", "turn"})
             => /\ lit'.text = lit.text
                /\ \A e \in {"dir", "re1", "re2"} : runs'[e] = runs[e]
          /\ (lit.tracked /\ ~lit.dirConnected /\ lastOp'.op = "connect")
             => lit'.text = value'["count"]
          /\ (lit'.connected /\ lit'.dirConnected /\ lit'.ref \in {"re1", "re2"}
              /\ lastOp'.op = "turn")
             => lit'.text = value'["count"]]_vars

\* C29: the signal that the element uses through track() only is no dependency
\* of any effect of its SignalTracker, directly or through another effect, and
\* a write to it requests no update and renders nothing.
C29_TrackedSignalIsNoHostDependency ==
    [][sc = "both"
       => /\ \A i \in 1..Len(HostEffects) :
                 /\ ~ReadsCurrently(HostEffects[i], "count")
                 /\ \A e \in {"dir", "re1", "re2"} :
                        ~(ReadsCurrently(HostEffects[i], e) /\ ReadsCurrently(e, "count"))
          /\ lastOp'.op \in {"set", "update", "turn"}
             => /\ lit'.renderCount = lit.renderCount
                /\ lit'.isUpdatePending => lit.isUpdatePending]_vars

\* C29 happens: the element rendered once with the directive connected, the
\* signal was then set to 1, the turn ended, and no update is pending.
C29_Witness ==
    /\ sc = "both"
    /\ lit.connected /\ lit.tracked /\ lit.dirConnected
    /\ lit.renderCount = 1
    /\ value["count"] = Prim(1)
    /\ writes = 1
    /\ ~lit.isUpdatePending
    /\ lastOp.op = "turn"

\* C31: in the make variant the valueVersion of a settable signal never
\* decreases; set(v) and update(fn) add one to it when the new value is not
\* equal to the stored one under the signal's equality and leave it alone when it is,
\* mutate adds one, no write touches the valueVersion of another signal, and
\* a read, an untracked read or a peek changes no signal's valueVersion.
C31_ValueVersionCountsChanges ==
    [][impl = "make"
       => \A n \in NodesOf("signal") :
             /\ valueVersion'[n] >= valueVersion[n]
             /\ (lastOp'.op \in {"set", "update"} /\ lastOp'.n = n
                 /\ ~equalThrows(n, value[n], lastOp'.v))
                => valueVersion'[n] = valueVersion[n]
                       + (IF equal(n, value[n], lastOp'.v) THEN 0 ELSE 1)
             /\ (lastOp'.op = "mutate" /\ lastOp'.n = n)
                => valueVersion'[n] = valueVersion[n] + 1
             /\ (IsWrite(lastOp') /\ lastOp'.n # n)
                => valueVersion'[n] = valueVersion[n]
             /\ (lastOp'.op \in {"read", "untracked", "peek"} /\ sc \notin {"chain", "bump"})
                => valueVersion'[n] = valueVersion[n]]_vars

\* C31 happens: the object was mutated (the heap shows it), the signal was set
\* to 0 and then to 0 again: three writes, two changes.
C31_Witness ==
    /\ impl = "make" /\ sc = "object"
    /\ writes = 3
    /\ heap[1] = 1
    /\ lastOp = [op |-> "set", n |-> "state", v |-> Prim(0)]
    /\ value["state"] = Prim(0)
    /\ valueVersion["state"] = 2

\* C32: when the equality function throws inside set(v), set throws to its
\* caller and the step changes nothing of the graph: the value and the
\* valueVersion of the signal, its consumers (the edges, kept in producers),
\* and the notification state of every node (stale, dirty, the effect queue)
\* are as before.
C32_ThrowingEqualLeavesSignalUntouched ==
    [][(lastOp'.op = "set" /\ equalThrows(lastOp'.n, value[lastOp'.n], lastOp'.v))
       => /\ set(Store, lastOp'.n, lastOp'.v).exc
          /\ UNCHANGED <<value, valueVersion, producers, stale, dirty, queue, runs,
                         trackingVersion, seen>>]_vars

\* C32 happens: x holds 1, the memo and the effect have read it, and the last
\* operation was x.set(3), on which the equality function throws.
C32_Witness ==
    /\ sc = "equal"
    /\ lastOp = [op |-> "set", n |-> "x", v |-> Prim(3)]
    /\ value["x"] = Prim(1)
    /\ valueVersion["x"] = 1
    /\ {c \in DOMAIN prog : ReadsCurrently(c, "x")} = {"twice", "eff"}
    /\ ~dirty["eff"]

\* C33: a promise that settles after a newer load has started changes none
\* of value, state and error of the resource, whether it is fulfilled or
\* rejected and whether the newer promise has settled or not; the promise of
\* the load started last, when it settles, puts its outcome into value or
\* into error and state.
C33_OnlyLatestFetchIsApplied ==
    [][\A i \in 1..MaxFetches + 1 :
          (/\ lastOp'.op = "settle"
           /\ i \in 1..Len(res.fetches)
           /\ res.fetches[i].st = "pending"
           /\ res'.fetches[i].st # "pending") =>
             IF i < Len(res.fetches)
             THEN /\ value'["value"] = value["value"]
                  /\ value'["state"] = value["state"]
                  /\ value'["error"] = value["error"]
             ELSE IF res'.fetches[i].st = "fulfilled"
                  THEN value'["value"] = Fetched(i)
                  ELSE value'["error"] = Failure(i) /\ value'["state"] = St.errored]_vars

\* C33 happens: two loads were started, the second one has been fulfilled and
\* then the first one is rejected: the resource stays ready with the second value.
C33_Witness ==
    /\ sc = "resource"
    /\ Len(res.fetches) = 2
    /\ res.fetches[1].st = "rejected" /\ res.fetches[2].st = "fulfilled"
    /\ lastOp = [op |-> "settle", n |-> NoConsumer, v |-> Failure(1)]
    /\ value["value"] = Fetched(2)
    /\ value["state"] = St.ready
    /\ value["error"] = UNDEFINED

\* C34: between operations loading() is true, and state is 'pending' or
\* 'refreshing', exactly when a promise of the fetcher is the current one and
\* has not settled; 'pending' only while no load has completed, 'refreshing'
\* only after one has, and neither 'unresolved' nor 'pending' after one has.
C34_LoadingIffPromiseInFlight ==
    (sc = "resource" /\ res.created) =>
        /\ (value["state"] \in {St.pending, St.refreshing}) <=> (res.promise # 0)
        /\ memo(Store, "loading").v = Prim(IF res.promise # 0 THEN 1 ELSE 0)
        /\ value["state"] = St.pending => ~res.resolved
        /\ value["state"] = St.refreshing => res.resolved
        /\ res.resolved => value["state"] \notin {St.unresolved, St.pending}

\* C35: when the promise of the newest load is fulfilled, every run of an
\* effect during the completion that reads the new value reads state 'ready'
\* with it, no such run finds the resource throwing, and a read of the
\* resource right after the completion does not throw.
C35_CompletionObservedAtomically ==
    \A i \in 1..MaxFetches :
        (/\ sc = "resource"
         /\ lastOp = [op |-> "settle", n |-> NoConsumer, v |-> Fetched(i)]
         /\ i = Len(res.fetches)) =>
            /\ \A j \in 1..Len(res.log) :
                  /\ res.log[j].v # THROWN
                  /\ res.log[j].v = Fetched(i) => res.log[j].st = St.ready
            /\ memo(Store, "read").v # THROWN

\* C36: refetch(), with no argument or with a key, calls the fetcher again:
\* one more load is started, its promise is the current one, and state is
\* 'refreshing' when a load has completed before and 'pending' otherwise.
C36_RefetchStartsLoad ==
    [][lastOp'.op = "refetch" =>
          /\ Len(res'.fetches) = Len(res.fetches) + 1
          /\ res'.promise = Len(res'.fetches)
          /\ value'["state"] = IF res.resolved THEN St.refreshing ELSE St.pending]_vars

\* The items of a list whose id has the string k.
WithId(list, k) == SelectSeq(list, LAMBDA it : toString(it.id) = k)

\* C37: the items of a store never include two with the same id string;
\* add leaves, for every id string among its arguments, one item, the last
\* argument with that id, and leaves the items with other ids alone; delete
\* removes the items whose id string is that of an argument and no other;
\* after clear the store has no item and isEmpty() is true.
C37_StoreKeepsIdsUnique ==
    [][(sc = "store" /\ storage'.created) =>
          /\ \A k \in IdStrings : Len(WithId(value'["items"].v, k)) <= 1
          /\ lastOp'.op = "add" =>
                \A k \in IdStrings :
                    WithId(value'["items"].v, k) =
                        IF WithId(lastOp'.v.v, k) # <<>>
                        THEN <<WithId(lastOp'.v.v, k)[Len(WithId(lastOp'.v.v, k))]>>
                        ELSE WithId(value["items"].v, k)
          /\ lastOp'.op = "delete" =>
                /\ \A k \in IdStrings :
                      WithId(value'["items"].v, k) =
                          IF WithId(lastOp'.v.v, k) # <<>>
                          THEN <<>>
                          ELSE WithId(value["items"].v, k)
                /\ Len(value'["items"].v) <= Len(value["items"].v)
          /\ lastOp'.op = "clear" =>
                /\ value'["items"].v = <<>>
                /\ (memo(Store, "isEmpty").v)' = Prim(1)]_vars

\* C37 happens: on a store created with the items of ids 1 and 2, add is
\* called with an array holding a new item of id 1 and then an item of id "1":
\* one item of id string 1 remains, the last one given, where the old one stood.
C37_Witness ==
    /\ sc = "store"
    /\ lastOp = [op |-> "add", n |-> NoConsumer,
                 v |-> [k |-> "array",
                        v |-> <<Item(Id("num", 1), 1), Item(Id("str", 1), 0)>>]]
    /\ value["items"] = ListOf(<<Item(Id("str", 1), 0), Item(Id("num", 2), 0)>>)

\* C38: for a store created without initialValue, the storage engine holds
\* under each id string the item of the store's value with that id, and
\* nothing under an id string that no item of the value has.
C38_StorageHoldsTheValue ==
    (sc = "store" /\ storage.created /\ ~storage.initial) =>
        \A k \in IdStrings :
            WithId(value["items"].v, k) =
                IF storage.data[k] = NoItem THEN <<>> ELSE <<storage.data[k]>>

\* C38 happens: a store created over an item persisted earlier has had items
\* added and the item of id 1 deleted: value and storage hold the item of id 2.
C38_Witness ==
    /\ sc = "store"
    /\ ~storage.initial
    /\ lastOp.op = "delete"
    /\ value["items"] = ListOf(<<Item(Id("num", 2), 0)>>)
    /\ storage.data = [NothingPersisted EXCEPT ![2] = Item(Id("num", 2), 0)]
    /\ writes = 2

\* C39: once the property has been read in a reactive context and then
\* written through the proxy, a read of the property and a computed that
\* reads it give the value written last.
C39_ProxyReadsWhatWasWritten ==
    (sc = "proxy" /\ proxy.has /\ writes > 0) =>
        /\ handler_get(Store).v = proxy.target
        /\ memo(Store, "view").v = proxy.target

====
